---- MODULE Spec2Model ----
(***************************************************************************)
(* SpaTracker2 PLY exporter (export_ply.py) and PLY reader of the Blender  *)
(* importer (blender_addon/import_spatracker2_ply.py).                     *)
(*                                                                         *)
(* Numbers.  Array values are exact rationals <<n, d>> (d > 0, lowest      *)
(* terms).  Coordinates, depths, intrinsics and scales are dyadic and      *)
(* small, so every float64 operation of the code is exact on them; the     *)
(* float32 conversion done when a vertex is serialised is modelled bit by  *)
(* bit (F32Bytes, F32Value).  Visibility scores are only compared.         *)
(* Sequences are 1-based: frame t of the code is element t+1.              *)
(***************************************************************************)
EXTENDS Integers, Sequences, FiniteSets, TLC

\* ------------------------------------------------------------------ bounds
MaxT      == 2     \* frames per dataset
MaxPoints == 3     \* trajectory values per dataset: T * N <= MaxPoints
MaxPixels == 4     \* depth values per dataset: T * H * W <= MaxPixels
MaxSide   == 2     \* depth frame height and width
MaxHeight == 3     \* video frame height (width up to MaxSide)

\* --------------------------------------------------------------- rationals
RECURSIVE GCD(_, _)
GCD(a, b) == IF b = 0 THEN a ELSE GCD(b, a % b)

Abs(n) == IF n < 0 THEN -n ELSE n

\* A zero denominator stands for what float division by zero gives:
\* <<1, 0>> is inf, <<-1, 0>> is -inf and <<0, 0>> is nan.
R(n, d) ==
    IF d = 0 THEN <<IF n > 0 THEN 1 ELSE IF n < 0 THEN -1 ELSE 0, 0>>
    ELSE
    LET s == IF d < 0 THEN -1 ELSE 1
        g == GCD(Abs(n), Abs(d))
    IN  <<(s * n) \div g, (s * d) \div g>>

I(n) == <<n, 1>>

RAdd(a, b) == R(a[1] * b[2] + b[1] * a[2], a[2] * b[2])
RSub(a, b) == R(a[1] * b[2] - b[1] * a[2], a[2] * b[2])
RMul(a, b) == R(a[1] * b[1], a[2] * b[2])
RDiv(a, b) == R(a[1] * b[2], a[2] * b[1])
RLt(a, b)  == a[1] * b[2] < b[1] * a[2]
RLe(a, b)  == a[1] * b[2] <= b[1] * a[2]
RGt(a, b)  == RLt(b, a)
RAbs(a)    == <<Abs(a[1]), a[2]>>
RFloor(a)  == a[1] \div a[2]

RECURSIVE Pow2(_)
Pow2(k) == IF k = 0 THEN 1 ELSE 2 * Pow2(k - 1)

\* ----------------------------------------------------- float32, uint8, text
\* The exponent e of a positive rational: 2^e <= n/d < 2^(e+1), within the
\* range of the model's values.
F32Exp(n, d) ==
    CHOOSE e \in -7..7 :
        /\ (IF e >= 0 THEN Pow2(e) * d <= n ELSE d <= n * Pow2(-e))
        /\ (IF e + 1 >= 0 THEN n < Pow2(e + 1) * d ELSE n * Pow2(-e - 1) < d)

\* Long division: the quotient bits of r/d (r < d) appended to m, k bits, as
\* <<mantissa, remainder>>.
RECURSIVE MantBits(_, _, _, _)
MantBits(m, r, d, k) ==
    IF k = 0 THEN <<m, r>>
    ELSE MantBits(2 * m + ((2 * r) \div d), (2 * r) % d, d, k - 1)

\* IEEE-754 binary32 of a rational, round to nearest even, most significant
\* byte first.
F32BytesBE(q) ==
    IF q[2] = 0
    THEN IF q[1] > 0 THEN <<127, 128, 0, 0>>
         ELSE IF q[1] < 0 THEN <<255, 128, 0, 0>>
         ELSE <<127, 192, 0, 0>>
    ELSE IF q[1] = 0 THEN <<0, 0, 0, 0>>
    ELSE
    LET sign == IF q[1] < 0 THEN 1 ELSE 0
        e0   == F32Exp(Abs(q[1]), q[2])
        n    == IF e0 >= 0 THEN Abs(q[1]) ELSE Abs(q[1]) * Pow2(-e0)
        d    == IF e0 >= 0 THEN q[2] * Pow2(e0) ELSE q[2]
        mr   == MantBits(1, n - d, d, 23)
        qq   == mr[1]
        rr   == mr[2]
        m0   == qq + (IF 2 * rr > d \/ (2 * rr = d /\ qq % 2 = 1) THEN 1 ELSE 0)
        e    == IF m0 = Pow2(24) THEN e0 + 1 ELSE e0
        m    == IF m0 = Pow2(24) THEN Pow2(23) ELSE m0
        E    == e + 127
        frac == m - Pow2(23)
    IN  <<sign * 128 + (E \div 2),
          (E % 2) * 128 + (frac \div 65536),
          (frac \div 256) % 256,
          frac % 256>>

\* Mutant: the float written most significant byte first.
F32Bytes_BigEndian(q) == F32BytesBE(q)

\* np.array(v, dtype='<f4').tobytes() for one component: little-endian.
F32Bytes(q) ==
    LET b == F32BytesBE(q) IN <<b[4], b[3], b[2], b[1]>>

\* struct.unpack('<f', b)[0].  A value whose exponent is outside the range
\* of the model's rationals is kept as <<mantissa, exponent, 0>>, standing
\* for mantissa * 2^exponent (no serialised input of the model is one).
F32Value(b) ==
    LET sign == b[4] \div 128
        E    == (b[4] % 128) * 2 + (b[3] \div 128)
        frac == (b[3] % 128) * 65536 + b[2] * 256 + b[1]
        m    == Pow2(23) + frac
        s    == IF sign = 1 THEN -1 ELSE 1
    IN  IF E = 0 /\ frac = 0 THEN I(0)
        ELSE IF E = 255 THEN <<IF frac = 0 THEN s ELSE 0, 0>>
        ELSE IF E = 0 THEN <<s * frac, -149, 0>>
        ELSE IF E > 157 \/ E < 120 THEN <<s * m, E - 150, 0>>
        ELSE IF E >= 150 THEN I(s * m * Pow2(E - 150))
        ELSE R(s * m, Pow2(150 - E))

\* np.array(c, dtype='u1') for one channel
U8(c) == c % 256

\* str(n) as its decimal digits, most significant first
RECURSIVE Digits(_)
Digits(n) == IF n < 10 THEN <<n>> ELSE Append(Digits(n \div 10), n % 10)

\* int(s) of a string of decimal digits
RECURSIVE ParseInt(_)
ParseInt(ds) ==
    IF ds = <<>> THEN 0
    ELSE 10 * ParseInt(SubSeq(ds, 1, Len(ds) - 1)) + ds[Len(ds)]

\* f"{t:06d}"
RECURSIVE ZeroPad(_, _)
ZeroPad(ds, w) == IF Len(ds) >= w THEN ds ELSE ZeroPad(<<0>> \o ds, w)

Pad6(t) == ZeroPad(Digits(t), 6)

RECURSIVE Flatten(_)
Flatten(ss) == IF ss = <<>> THEN <<>> ELSE Head(ss) \o Flatten(Tail(ss))

Min2(a, b) == IF a <= b THEN a ELSE b

\* ------------------------------------------------------------ PLY file codec
\* A file is its header lines and its binary body.  A header line is its text
\* and, for the vertex-count line, the decimal digits that end it.
Line(s) == [text |-> s, num |-> <<>>]

PlyHeader(n) ==
    << Line("ply"),
       Line("format binary_little_endian 1.0"),
       [text |-> "element vertex", num |-> Digits(n)],
       Line("property float x"),
       Line("property float y"),
       Line("property float z"),
       Line("property uchar red"),
       Line("property uchar green"),
       Line("property uchar blue"),
       Line("end_header") >>

\* One record: 3 little-endian float32, then 3 unsigned bytes.
VertexRecord(v, c) ==
    F32Bytes(v[1]) \o F32Bytes(v[2]) \o F32Bytes(v[3])
        \o <<U8(c[1]), U8(c[2]), U8(c[3])>>

\* The header states len(vertices); the body holds one record per pair of
\* zip(vertices, colors).
write_ply_with_colors(vertices, colors) ==
    [header |-> PlyHeader(Len(vertices)),
     body   |-> Flatten([k \in 1..Min2(Len(vertices), Len(colors)) |->
                            VertexRecord(vertices[k], colors[k])])]

\* f.read(n) at offset pos: at most n bytes, fewer at the end of the file.
ReadBytes(body, pos, n) == SubSeq(body, pos + 1, Min2(pos + n, Len(body)))

IsEndHeader(line) == line.text = "end_header" /\ line.num = <<>>

\* Index of the first end_header line, 0 when there is none.
EndHeaderAt(header) ==
    IF \E k \in 1..Len(header) : IsEndHeader(header[k])
    THEN CHOOSE k \in 1..Len(header) :
            /\ IsEndHeader(header[k])
            /\ \A j \in 1..(k - 1) : ~IsEndHeader(header[j])
    ELSE 0

\* num_vertices after the loop over header_lines: the last `element vertex`
\* line decides, 0 when there is none.
RECURSIVE NumVertices(_, _)
NumVertices(lines, acc) ==
    IF lines = <<>> THEN acc
    ELSE NumVertices(Tail(lines),
                     IF Head(lines).text = "element vertex"
                     THEN ParseInt(Head(lines).num)
                     ELSE acc)

HasColor(lines) ==
    \E k \in 1..Len(lines) : lines[k].text = "property uchar red"

\* Mutant: a reader that stops quietly at the end of the file and returns
\* the records it got.
RECURSIVE ReadVertices_StopsAtEof(_, _, _, _, _, _)
ReadVertices_StopsAtEof(body, pos, n, has_color, vertices, colors) ==
    LET size == IF has_color THEN 15 ELSE 12
        rec  == ReadBytes(body, pos, size)
    IN  IF n <= 0 \/ Len(rec) < size
        THEN [status |-> "ok", vertices |-> vertices, colors |-> colors]
        ELSE ReadVertices_StopsAtEof(body, pos + size, n - 1, has_color,
                 Append(vertices, <<F32Value(SubSeq(rec, 1, 4)),
                                    F32Value(SubSeq(rec, 5, 8)),
                                    F32Value(SubSeq(rec, 9, 12))>>),
                 Append(colors, IF has_color
                                THEN <<R(rec[13], 255), R(rec[14], 255),
                                       R(rec[15], 255), I(1)>>
                                ELSE <<I(1), I(1), I(1), I(1)>>))

\* Mutant: a reader that takes the three colour bytes of every record,
\* declared or not.
RECURSIVE ReadVertices_AlwaysColor(_, _, _, _, _, _)
ReadVertices_AlwaysColor(body, pos, n, has_color, vertices, colors) ==
    LET rec == ReadBytes(body, pos, 15)
    IN  IF n <= 0
        THEN [status |-> "ok", vertices |-> vertices, colors |-> colors]
        ELSE IF Len(rec) < 15
        THEN [status |-> "error", vertices |-> <<>>, colors |-> <<>>]
        ELSE ReadVertices_AlwaysColor(body, pos + 15, n - 1, has_color,
                 Append(vertices, <<F32Value(SubSeq(rec, 1, 4)),
                                    F32Value(SubSeq(rec, 5, 8)),
                                    F32Value(SubSeq(rec, 9, 12))>>),
                 Append(colors, <<R(rec[13], 255), R(rec[14], 255),
                                  R(rec[15], 255), I(1)>>))

\* Records still to read: n.  Each struct.unpack raises struct.error when
\* f.read returned fewer bytes than the format needs.
RECURSIVE ReadVertices(_, _, _, _, _, _)
ReadVertices(body, pos, n, has_color, vertices, colors) ==
    IF n <= 0
    THEN [status |-> "ok", vertices |-> vertices, colors |-> colors]
    ELSE
    LET bx == ReadBytes(body, pos, 4)
        by == ReadBytes(body, pos + 4, 4)
        bz == ReadBytes(body, pos + 8, 4)
        br == ReadBytes(body, pos + 12, 1)
        bg == ReadBytes(body, pos + 13, 1)
        bb == ReadBytes(body, pos + 14, 1)
    IN  IF Len(bx) < 4 \/ Len(by) < 4 \/ Len(bz) < 4
        THEN [status |-> "error", vertices |-> <<>>, colors |-> <<>>]
        ELSE IF has_color
        THEN IF Len(br) < 1 \/ Len(bg) < 1 \/ Len(bb) < 1
             THEN [status |-> "error", vertices |-> <<>>, colors |-> <<>>]
             ELSE ReadVertices(body, pos + 15, n - 1, has_color,
                      Append(vertices, <<F32Value(bx), F32Value(by), F32Value(bz)>>),
                      Append(colors, <<R(br[1], 255), R(bg[1], 255),
                                       R(bb[1], 255), I(1)>>))
        ELSE ReadVertices(body, pos + 12, n - 1, has_color,
                 Append(vertices, <<F32Value(bx), F32Value(by), F32Value(bz)>>),
                 Append(colors, <<I(1), I(1), I(1), I(1)>>))

\* status "ok" with the arrays returned, "error" for a raised exception,
\* "hang" when the header loop never meets end_header: readline() then runs
\* on into the records, where decode('ascii') raises on a byte above 127,
\* and at the end of the file it returns b'' again and again.
parse_ply_file(file) ==
    LET k == EndHeaderAt(file.header)
        header_lines == SubSeq(file.header, 1, k - 1)
    IN  IF k = 0
        THEN IF \E j \in 1..Len(file.body) : file.body[j] > 127
             THEN [status |-> "error", vertices |-> <<>>, colors |-> <<>>]
             ELSE [status |-> "hang", vertices |-> <<>>, colors |-> <<>>]
        ELSE ReadVertices(file.body, 0, NumVertices(header_lines, 0),
                          HasColor(header_lines), <<>>, <<>>)

\* ------------------------------------------------------------ colour policy
\* Mutant: channels that reach full saturation two tenths off the breakpoint
\* (2 in the place of 1.5).
JetChannel_Wide(q, below, bp) ==
    LET v0  == RSub(I(2), RMul(I(4), RAbs(RSub(q, bp))))
        x   == RMul(v0, I(255))
        dir == IF ~below THEN 0 ELSE IF RGt(q, bp) THEN 1 ELSE -1
    IN  IF RLt(I(1), v0) THEN 255
        ELSE IF RLe(v0, I(0)) THEN 0
        ELSE IF x[2] = 1 /\ dir < 0 THEN x[1] - 1
        ELSE RFloor(x)

\* Mutant: the channel is not clamped before the cast.
JetChannel_Unclamped(q, below, bp) ==
    RFloor(RMul(RSub(R(3, 2), RMul(I(4), RAbs(RSub(q, bp)))), I(255)))

\* One jet channel, clamp(1.5 - 4*|n - bp|, 0, 1) * 255 cast to uint8, for the
\* normalised depth n.  n is q exactly, or (below) q less the tiny amount the
\* 1e-8 in the divisor takes off: the amount is far smaller than any gap
\* between the model's values, so only its sign matters.
JetChannel(q, below, bp) ==
    LET nonneg == IF below THEN RGt(q, bp) ELSE RLe(bp, q)
        v0     == RSub(R(3, 2), RMul(I(4), RAbs(RSub(q, bp))))
        dir    == IF ~below THEN 0 ELSE IF nonneg THEN 1 ELSE -1
        x      == RMul(v0, I(255))
    IN  IF RLt(I(1), v0) THEN 255
        ELSE IF RLe(v0, I(0)) THEN 0
        ELSE IF x[2] = 1 /\ dir < 0 THEN x[1] - 1
        ELSE RFloor(x)

\* depth_to_color for one depth value: norm = clip((depth - min_depth) /
\* (max_depth - min_depth + 1e-8), 0, 1), then the three channels.
depth_to_color(depth, min_depth, max_depth) ==
    LET a     == RSub(depth, min_depth)
        range == RSub(max_depth, min_depth)
        exact == RLe(a, I(0)) \/ RLe(range, I(0)) \/ RGt(a, range)
        q     == IF RLe(a, I(0)) THEN I(0)
                 ELSE IF RLe(range, I(0)) \/ RGt(a, range) THEN I(1)
                 ELSE RDiv(a, range)
    IN  << JetChannel(q, ~exact, R(3, 4)),
           JetChannel(q, ~exact, R(1, 2)),
           JetChannel(q, ~exact, R(1, 4)) >>

White == <<255, 255, 255>>

RECURSIVE SeqMin(_)
SeqMin(s) ==
    IF Len(s) = 1 THEN s[1]
    ELSE LET m == SeqMin(Tail(s)) IN IF RLe(s[1], m) THEN s[1] ELSE m

RECURSIVE SeqMax(_)
SeqMax(s) ==
    IF Len(s) = 1 THEN s[1]
    ELSE LET m == SeqMax(Tail(s)) IN IF RLe(m, s[1]) THEN s[1] ELSE m

\* ------------------------------------------------------------- camera model
\* intrinsics as the 3x3 matrix the code indexes.
Matrix(fx, fy, cx, cy) ==
    << <<fx, I(0), cx>>, <<I(0), fy, cy>>, <<I(0), I(0), I(1)>> >>

DefaultIntrinsics == Matrix(I(256), I(256), I(128), I(96))

\* Mutant: fx and cx used for both axes.
Unproject_OneFocal(x, y, z, intr, scale) ==
    << RMul(RDiv(RMul(RSub(I(x), intr[1][3]), z), intr[1][1]), scale),
       RMul(RDiv(RMul(RSub(I(y), intr[1][3]), z), intr[1][1]), scale),
       RMul(z, scale) >>

\* X, Y, Z of one valid pixel (column x, row y, 0-based), then the scale.
Unproject(x, y, z, intr, scale) ==
    LET fx == intr[1][1]
        fy == intr[2][2]
        cx == intr[1][3]
        cy == intr[2][3]
    IN  << RMul(RDiv(RMul(RSub(I(x), cx), z), fx), scale),
           RMul(RDiv(RMul(RSub(I(y), cy), z), fy), scale),
           RMul(z, scale) >>

\* np.indices((H, W)) flattened the way boolean indexing walks it: row by
\* row, as <<y, x>>.
PixelGrid(H, W) ==
    [k \in 1..(H * W) |-> <<(k - 1) \div W, (k - 1) % W>>]

\* Mutant: depth >= 0 keeps the zero pixels.
ValidDepth_NonNegative(d) == RLe(I(0), d)

ValidDepth(d) == RGt(d, I(0))

\* ------------------------------------------------------------- video frames
\* A video frame is a 3-D array a[i][j][k] of numbers: (3, H, W) channel
\* first or (H, W, 3) channel last.  A value is a whole number of the byte
\* range or a multiple of 1/256 of the normalised range, so `* 255` is exact.
Shape(a) == <<Len(a), Len(a[1]), Len(a[1][1])>>

FrameValues(a) == Flatten(Flatten(a))

\* (frame * 255).astype(np.uint8)
TimesByte(a) ==
    [i \in 1..Len(a) |-> [j \in 1..Len(a[i]) |-> [k \in 1..Len(a[i][j]) |->
        I(U8(RFloor(RMul(a[i][j][k], I(255)))))]]]

\* if frame.max() <= 1.0: frame = (frame * 255).astype(np.uint8)
ScaleIfNormalised(a) ==
    IF RLe(SeqMax(FrameValues(a)), I(1)) THEN TimesByte(a) ELSE a

\* np.transpose(frame, (1, 2, 0))
Transpose120(a) ==
    [i \in 1..Len(a[1]) |-> [j \in 1..Len(a[1][1]) |-> [k \in 1..Len(a) |->
        a[k][i][j]]]]

\* One pass of the video loop of export_ply_sequence: the frame is taken
\* for channel first when its first axis has length 3.
PrepareFrame(frame) ==
    LET f == ScaleIfNormalised(frame)
    IN  IF Len(f) = 3 THEN Transpose120(f) ELSE f

RECURSIVE RSum(_)
RSum(s) == IF s = <<>> THEN I(0) ELSE RAdd(Head(s), RSum(Tail(s)))

\* frame.mean(axis=(0, 1)).astype(np.uint8): one value per index of the
\* last axis.
MeanColor(frame) ==
    [k \in 1..Len(frame[1][1]) |->
        U8(RFloor(RDiv(
            RSum(Flatten([i \in 1..Len(frame) |->
                             [j \in 1..Len(frame[i]) |-> frame[i][j][k]]])),
            I(Len(frame) * Len(frame[1])))))]

\* The video branch of depth_to_point_cloud for the valid pixels (ys, xs):
\* the frame is indexed as channel first when its first axis has length 3,
\* as channel last otherwise; an index past an axis raises IndexError.
\* The values sampled are whole numbers.
SampleVideo(video_frame, ys, xs) ==
    LET vf == ScaleIfNormalised(video_frame)
        sh == Shape(vf)
        n  == Len(ys)
    IN  IF sh[1] = 3
        THEN IF \E k \in 1..n : ys[k] >= sh[2] \/ xs[k] >= sh[3]
             THEN [status |-> "IndexError", colors |-> <<>>]
             ELSE [status |-> "ok",
                   colors |-> [k \in 1..n |-> [c \in 1..3 |->
                                 RFloor(vf[c][ys[k] + 1][xs[k] + 1])]]]
        ELSE IF \E k \in 1..n : ys[k] >= sh[1] \/ xs[k] >= sh[2]
             THEN [status |-> "IndexError", colors |-> <<>>]
             ELSE [status |-> "ok",
                   colors |-> [k \in 1..n |-> [c \in 1..sh[3] |->
                                 RFloor(vf[ys[k] + 1][xs[k] + 1][c])]]]

\* intrinsics[0, 0], [1, 1], [0, 2] and [1, 2] exist: the array is 2-D with
\* at least 2 rows and 3 columns.
IndexableIntrinsics(intrinsics) ==
    /\ Len(intrinsics) >= 2
    /\ \A r \in 1..2 : Len(intrinsics[r]) >= 3

\* Mutant: the jet colours are normalised over all pixels of the frame, the
\* invalid ones included.
depth_to_point_cloud_FrameExtrema(depth, intrinsics, color_source, video_frame, scale) ==
    LET H     == Len(depth)
        W     == Len(depth[1])
        At(p) == depth[p[1] + 1][p[2] + 1]
        valid == SelectSeq(PixelGrid(H, W), LAMBDA p : ValidDepth(At(p)))
        n     == Len(valid)
        zs    == [k \in 1..n |-> At(valid[k])]
        ys    == [k \in 1..n |-> valid[k][1]]
        xs    == [k \in 1..n |-> valid[k][2]]
        video == IF color_source = "video" /\ video_frame /= <<>>
                 THEN SampleVideo(video_frame, ys, xs)
                 ELSE [status |-> "ok", colors |-> <<>>]
    IN  IF ~IndexableIntrinsics(intrinsics)
        THEN [status |-> "IndexError", vertices |-> <<>>, colors |-> <<>>,
              ys |-> <<>>, xs |-> <<>>]
        ELSE IF n = 0
        THEN [status |-> "ok", vertices |-> <<>>, colors |-> <<>>,
              ys |-> <<>>, xs |-> <<>>]
        ELSE [status |-> video.status,
              vertices |-> [k \in 1..n |->
                  Unproject(valid[k][2], valid[k][1], zs[k], intrinsics, scale)],
              colors |-> IF color_source = "video" /\ video_frame /= <<>>
                         THEN video.colors
                         ELSE IF color_source = "depth"
                         THEN [k \in 1..n |->
                                 depth_to_color(zs[k], SeqMin(Flatten(depth)),
                                                SeqMax(Flatten(depth)))]
                         ELSE [k \in 1..n |-> White],
              ys |-> ys,
              xs |-> xs]

\* depth_to_point_cloud; ys and xs are y_valid and x_valid, video_frame is
\* <<>> for None.  status is "ok" or the exception raised.
depth_to_point_cloud(depth, intrinsics, color_source, video_frame, scale) ==
    LET H     == Len(depth)
        W     == Len(depth[1])
        At(p) == depth[p[1] + 1][p[2] + 1]
        valid == SelectSeq(PixelGrid(H, W), LAMBDA p : ValidDepth(At(p)))
        n     == Len(valid)
        zs    == [k \in 1..n |-> At(valid[k])]
        ys    == [k \in 1..n |-> valid[k][1]]
        xs    == [k \in 1..n |-> valid[k][2]]
        video == IF color_source = "video" /\ video_frame /= <<>>
                 THEN SampleVideo(video_frame, ys, xs)
                 ELSE [status |-> "ok", colors |-> <<>>]
    IN  IF ~IndexableIntrinsics(intrinsics)
        THEN [status |-> "IndexError", vertices |-> <<>>, colors |-> <<>>,
              ys |-> <<>>, xs |-> <<>>]
        ELSE IF n = 0
        THEN [status |-> "ok", vertices |-> <<>>, colors |-> <<>>,
              ys |-> <<>>, xs |-> <<>>]
        ELSE [status |-> video.status,
              vertices |-> [k \in 1..n |->
                  Unproject(valid[k][2], valid[k][1], zs[k], intrinsics, scale)],
              colors |-> IF color_source = "video" /\ video_frame /= <<>>
                         THEN video.colors
                         ELSE IF color_source = "depth"
                         THEN [k \in 1..n |->
                                 depth_to_color(zs[k], SeqMin(zs), SeqMax(zs))]
                         ELSE [k \in 1..n |-> White],
              ys |-> ys,
              xs |-> xs]

\* ------------------------------------------------------------------- inputs
\* An NPZ dataset: `keys` are the arrays it holds; the field of an absent
\* array is the empty sequence.  coords is (T, N, 3), visibs (T, N), depths
\* (T, H, W); intrinsics is one 3x3 matrix (ndim 2) or T of them (ndim 3).
ColorSources == {"video", "depth", "white"}
DepthVals    == {I(-1), I(0), I(1), I(2)}
VisVals      == {R(1, 10), R(1, 2), R(6, 10), R(9, 10)}

\* Trajectory point number k (0-based, frame-major) of generator g.
\* Generator 1 gives (1,2,3), (4,5,6), ...; generator 2 gives points of one
\* common Z with negative and fractional coordinates.
TrackPoint(g, k) ==
    IF g = 1 THEN <<I(1 + 3 * k), I(2 + 3 * k), I(3 + 3 * k)>>
    ELSE <<R(-(k + 1), 2), I(0), R(1, 2)>>

Coords(g, T, N) ==
    [t \in 1..T |-> [i \in 1..N |-> TrackPoint(g, (t - 1) * N + (i - 1))]]

IntrinsicsA == Matrix(I(2), I(4), I(1), R(1, 2))
IntrinsicsB == Matrix(I(1), I(2), I(0), I(1))

NoArray == <<>>

Dataset(keys, T, coords, visibs, depths, intrinsics) ==
    [keys |-> keys, T |-> T, coords |-> coords, visibs |-> visibs,
     depths |-> depths, intrinsics |-> intrinsics, video |-> NoArray]

Args(scale, color_source) ==
    [fps |-> 30, scale |-> scale, color_source |-> color_source]

\* Trajectory-only datasets: every shape with T * N <= MaxPoints, every
\* visibility table over VisVals, no table, and a table one entry too long.
SparseInputs ==
    UNION { UNION { UNION {
        { <<Dataset({"coords"} \cup vk[1], T, Coords(g, T, N), vk[2],
                    NoArray, NoArray),
            Args(sc, cs)>> :
            vk \in { <<{}, NoArray>> }
                   \cup { <<{"visibs"}, v>> : v \in [1..T -> [1..N -> VisVals]] }
                   \cup { <<{"visibs"}, [t \in 1..T |-> [i \in 1..(N + 1) |-> R(1, 10)]]>> },
            cs \in ColorSources, sc \in {I(1), I(2)} } :
        g \in 1..2 } :
        N \in {n \in 0..MaxPoints : T * n <= MaxPoints} } :
        T \in 1..MaxT }

\* How a dense dataset is unprojected and coloured.
DenseSetups(T) ==
    { <<{}, NoArray, I(1), "video">>,
      <<{}, NoArray, I(1), "depth">>,
      <<{}, NoArray, I(1), "white">>,
      <<{"intrinsics"}, [ndim |-> 2, a |-> IntrinsicsA], I(2), "depth">>,
      <<{"intrinsics"},
        [ndim |-> 3, a |-> [t \in 1..T |-> IF t = 1 THEN IntrinsicsA ELSE IntrinsicsB]],
        I(1), "white">> }

\* Depth-only datasets: every shape with T * H * W <= MaxPixels and sides up
\* to MaxSide, every depth map over DepthVals.
DenseInputs ==
    UNION { UNION { UNION {
        { <<Dataset({"depths"} \cup su[1], T, NoArray, NoArray, d, su[2]),
            Args(su[3], su[4])>> :
            d \in [1..T -> [1..H -> [1..W -> DepthVals]]],
            su \in DenseSetups(T) } :
        W \in {w \in 1..MaxSide : T * H * w <= MaxPixels} } :
        H \in 1..MaxSide } :
        T \in 1..MaxT }

\* Datasets with both arrays (one track point, one pixel per frame), with
\* and without a visibility table.
BothInputs ==
    UNION {
        { <<Dataset({"coords", "depths"} \cup vk[1], T, Coords(1, T, 1), vk[2],
                    d, NoArray),
            Args(I(1), cs)>> :
            d \in [1..T -> [1..1 -> [1..1 -> DepthVals]]],
            vk \in { <<{}, NoArray>>,
                     <<{"visibs"}, [t \in 1..T |-> <<R(1, 10)>>]>> },
            cs \in ColorSources } :
        T \in 1..MaxT }

\* Datasets with neither coords nor depths.
EmptyInputs ==
    { <<Dataset(k, 1, NoArray, NoArray, NoArray,
                IF "intrinsics" \in k THEN [ndim |-> 2, a |-> IntrinsicsA] ELSE NoArray),
        Args(I(1), cs)>> :
        k \in SUBSET {"intrinsics"}, cs \in ColorSources }

\* A trajectory whose frames share a Z: frame 0 has Z = 1, 2 and frame 1 has
\* Z = 2, 3.
RepeatCoords ==
    << << <<I(0), I(0), I(1)>>, <<I(1), I(0), I(2)>> >>,
       << <<I(2), I(0), I(2)>>, <<I(3), I(0), I(3)>> >> >>

RepeatInputs ==
    { <<Dataset({"coords"}, 2, RepeatCoords, NoArray, NoArray, NoArray),
        Args(sc, cs)>> : cs \in ColorSources, sc \in {I(1), I(2)} }

Inputs == SparseInputs \cup DenseInputs \cup BothInputs \cup EmptyInputs
              \cup RepeatInputs

\* Datasets with degenerate intrinsics: a zero focal length (principal
\* point off the pixel grid, so no 0/0 arises), a 2x2 array, and none at
\* all; depth only, or with a one-point trajectory.
ZeroFx    == Matrix(I(0), I(4), R(1, 2), R(1, 2))
ZeroFy    == Matrix(I(2), I(0), I(1), R(1, 2))
Malformed == << <<I(2), I(0)>>, <<I(0), I(4)>> >>

DegenerateIntrinsics ==
    { <<{"intrinsics"}, [ndim |-> 2, a |-> ZeroFx]>>,
      <<{"intrinsics"}, [ndim |-> 2, a |-> ZeroFy]>>,
      <<{"intrinsics"}, [ndim |-> 2, a |-> Malformed]>>,
      <<{}, NoArray>> }

DegenerateInputs ==
    UNION { UNION {
        { <<Dataset({"depths"} \cup ck[1] \cup ik[1], T, ck[2], NoArray, d, ik[2]),
            Args(I(1), "white")>> :
            d \in [1..T -> [1..1 -> [1..W -> DepthVals]]],
            ck \in { <<{}, NoArray>>, <<{"coords"}, Coords(1, T, 1)>> },
            ik \in DegenerateIntrinsics } :
        W \in {w \in 1..MaxSide : T * w <= MaxPixels} } :
        T \in 1..MaxT }

\* Video datasets.  The value of channel c at row y, column x of frame f
\* (all 0-based) is different at every place of a video: a whole number
\* below 256 ("byte"), that number over 256 ("unit", normalised range), or
\* 0 or 1 in a checkerboard ("dark", a byte-range video of a dark scene).
VideoRanges  == {"byte", "unit", "dark"}
VideoLayouts == {"first", "last"}

VideoValue(range, f, c, y, x) ==
    LET k == 80 * c + 16 * y + 4 * x + f + 2
    IN  IF range = "byte" THEN I(k)
        ELSE IF range = "unit" THEN R(k, 256)
        ELSE I((c + y + x + f) % 2)

Video(range, layout, T, H, W) ==
    [f \in 1..T |->
        IF layout = "first"
        THEN [c \in 1..3 |-> [y \in 1..H |-> [x \in 1..W |->
                 VideoValue(range, f - 1, c - 1, y - 1, x - 1)]]]
        ELSE [y \in 1..H |-> [x \in 1..W |-> [c \in 1..3 |->
                 VideoValue(range, f - 1, c - 1, y - 1, x - 1)]]]]

\* video_layout and video_range record how the producer laid the array out;
\* the exporter does not see them.
WithVideo(ds, video, layout, range) ==
    [keys |-> ds.keys \cup {"video"}, T |-> ds.T, coords |-> ds.coords,
     visibs |-> ds.visibs, depths |-> ds.depths, intrinsics |-> ds.intrinsics,
     video |-> video, video_layout |-> layout, video_range |-> range]

\* Frame sizes of a video dataset of T frames.
VideoShapes(T) ==
    {hw \in (1..MaxHeight) \X (1..MaxSide) : T * hw[1] * hw[2] <= MaxPixels}

\* Depth and video: every depth map over {0, 1}, every layout, value range
\* and colour source.
DenseVideoInputs ==
    UNION { UNION {
        { <<WithVideo(Dataset({"depths"}, T, NoArray, NoArray, d, NoArray),
                      Video(range, layout, T, hw[1], hw[2]), layout, range),
            Args(I(1), cs)>> :
            d \in [1..T -> [1..hw[1] -> [1..hw[2] -> {I(0), I(1)}]]],
            range \in VideoRanges, layout \in VideoLayouts, cs \in ColorSources } :
        hw \in VideoShapes(T) } :
        T \in 1..MaxT }

\* Tracks and video: one or two points per frame, with and without a
\* visibility table that hides the first point of every frame.
SparseVideoInputs ==
    UNION { UNION { UNION {
        { <<WithVideo(Dataset({"coords"} \cup vk[1], T, Coords(1, T, N), vk[2],
                              NoArray, NoArray),
                      Video(range, layout, T, hw[1], hw[2]), layout, range),
            Args(I(1), cs)>> :
            vk \in { <<{}, NoArray>>,
                     <<{"visibs"}, [f \in 1..T |-> [i \in 1..N |->
                                      IF i = 1 THEN R(1, 10) ELSE R(9, 10)]]>> },
            range \in VideoRanges, layout \in VideoLayouts, cs \in ColorSources } :
        N \in {n \in 1..2 : T * n <= MaxPoints} } :
        hw \in VideoShapes(T) } :
        T \in 1..MaxT }

VideoInputs == DenseVideoInputs \cup SparseVideoInputs

\* -------------------------------------------------------------------- state
VARIABLES
    npz,        \* the loaded dataset
    args,       \* fps, scale, color_source
    pc,         \* where export_ply_sequence stands
    T,          \* its frame count, once determined
    intr,       \* the intrinsics matrix it resolved
    t,          \* the frame index of the running loop
    dirs,       \* directories that exist
    files,      \* frame files on disk: path -> file
    metadata,   \* every write of metadata.json, in order
    error,      \* the exception export_ply_sequence raised, "" when none
    calls,      \* every call of write_ply_with_colors, in order
    recon,      \* what the last depth_to_point_cloud call returned
    parsed,     \* the call of parse_ply_file made on the export, if any
    video_colors, \* the frames Prepare converted, <<>> for None
    foreign,    \* the call of parse_ply_file made on another tool's file
    scene       \* the Blender scene after import_ply_sequence

vars == <<npz, args, pc, T, intr, t, dirs, files, metadata, error, calls,
          recon, parsed, video_colors, foreign, scene>>

Has(key) == key \in npz.keys

\* f"frame_{t:06d}.ply" under a sub-directory of the export root
FramePath(dir, frame) ==
    [dir |-> dir, prefix |-> "frame_", index |-> Pad6(frame), suffix |-> ".ply"]

NoRecon == [frame |-> -1, vertices |-> <<>>, colors |-> <<>>,
            ys |-> <<>>, xs |-> <<>>]

NoParse == [called |-> FALSE, dir |-> "", frame |-> -1, cut |-> -1,
            status |-> "", vertices |-> <<>>, colors |-> <<>>]

NoForeign == [called |-> FALSE, kind |-> "", dir |-> "", frame |-> -1,
              status |-> "", vertices |-> <<>>, colors |-> <<>>]

NoScene == [called |-> FALSE, status |-> "", folder |-> "", frame_start |-> 0,
            frame_end |-> 0, fps |-> 0, objects |-> <<>>]

InitWith(inputs) ==
    /\ \E in \in inputs : npz = in[1] /\ args = in[2]
    /\ pc = "load"
    /\ T = 0
    /\ intr = DefaultIntrinsics
    /\ t = 0
    /\ dirs = {}
    /\ files = <<>>
    /\ metadata = <<>>
    /\ error = ""
    /\ calls = <<>>
    /\ recon = NoRecon
    /\ parsed = NoParse
    /\ video_colors = <<>>
    /\ foreign = NoForeign
    /\ scene = NoScene

Init == InitWith(Inputs)

\* ------------------------------------------------------ export_ply_sequence
\* Mutant: no check that there is something to export.
Load_NoCheck ==
    /\ pc = "load"
    /\ pc' = "mkdir"
    /\ T' = IF Has("depths") THEN Len(npz.depths) ELSE Len(npz.coords)
    /\ UNCHANGED <<npz, args, intr, video_colors, t, dirs, files, metadata, error, calls,
                   recon, parsed, foreign, scene>>

\* np.load, the five data.get calls, the check for something to export and
\* the frame count.
Load ==
    /\ pc = "load"
    /\ IF ~Has("depths") /\ ~Has("coords")
       THEN /\ pc' = "failed"
            /\ error' = "NPZ file missing both 'coords' and 'depths' arrays"
            /\ T' = T
       ELSE /\ pc' = "mkdir"
            /\ error' = error
            /\ T' = IF Has("depths") THEN Len(npz.depths) ELSE Len(npz.coords)
    /\ UNCHANGED <<npz, args, intr, video_colors, t, dirs, files, metadata, calls, recon, parsed, foreign, scene>>

\* The two mkdir(parents=True, exist_ok=True) calls.
MakeDirs ==
    /\ pc = "mkdir"
    /\ dirs' = dirs \cup {"", "trajectory", "pointcloud"}
    /\ pc' = "prepare"
    /\ UNCHANGED <<npz, args, T, intr, video_colors, t, files, metadata, error, calls, recon, parsed, foreign, scene>>

\* The intrinsics the dense loop will use.
ResolveIntrinsics ==
    IF Has("intrinsics")
    THEN IF npz.intrinsics.ndim = 3 THEN npz.intrinsics.a[1] ELSE npz.intrinsics.a
    ELSE DefaultIntrinsics

\* Where the run goes once the loop of `mode` is over (or is skipped).
AfterPrepare == IF Has("coords") THEN "trajectory"
                ELSE IF Has("depths") THEN "dense" ELSE "metadata"
AfterTrajectory == IF Has("depths") THEN "dense" ELSE "metadata"

\* Video colours (<<>> for None) and the intrinsics.
Prepare ==
    /\ pc = "prepare"
    /\ intr' = ResolveIntrinsics
    /\ pc' = AfterPrepare
    /\ t' = 0
    /\ video_colors' = IF args.color_source = "video" /\ Has("video")
                       THEN [f \in 1..T |-> PrepareFrame(npz.video[f])]
                       ELSE <<>>
    /\ UNCHANGED <<npz, args, T, dirs, files, metadata, error, calls, recon, parsed, foreign, scene>>

\* Mutant: a score of exactly 0.5 counts as visible.
Visible_AtLeastHalf(v) == RLe(R(1, 2), v)

\* vis_mask = visibs[t].flatten() > 0.5
Visible(v) == RGt(v, R(1, 2))

\* The indices x[vis_mask] keeps, in order.
MaskKeep(vis_mask) ==
    SelectSeq([i \in 1..Len(vis_mask) |-> i], LAMBDA i : vis_mask[i])

\* All Z of coords, for coords[:,:,2].min() and .max().
AllZ == Flatten([f \in 1..Len(npz.coords) |->
                    [i \in 1..Len(npz.coords[f]) |-> npz.coords[f][i][3]]])

\* Mutant: the jet colours are normalised over the Z of the frame itself.
TrajectoryColors_PerFrame(frame, frame_coords, N) ==
    IF args.color_source = "video" /\ video_colors /= <<>>
    THEN [i \in 1..N |-> MeanColor(video_colors[frame + 1])]
    ELSE IF args.color_source = "depth"
    THEN [i \in 1..Len(frame_coords) |->
            depth_to_color(frame_coords[i][3],
                           SeqMin([n \in 1..Len(frame_coords) |-> frame_coords[n][3]]),
                           SeqMax([n \in 1..Len(frame_coords) |-> frame_coords[n][3]]))]
    ELSE [i \in 1..N |-> White]

\* The colours of one trajectory frame before the mask: the mean colour of
\* the prepared video frame for every point, the jet colour of each Z over
\* the extrema of the whole sequence, or white.
TrajectoryColors(frame, frame_coords, N) ==
    IF args.color_source = "video" /\ video_colors /= <<>>
    THEN [i \in 1..N |-> MeanColor(video_colors[frame + 1])]
    ELSE IF args.color_source = "depth"
    THEN [i \in 1..Len(frame_coords) |->
            depth_to_color(frame_coords[i][3],
                           RMul(SeqMin(AllZ), args.scale),
                           RMul(SeqMax(AllZ), args.scale))]
    ELSE [i \in 1..N |-> White]

\* Mutant: the mask is applied to the coordinates only.
TrajectoryFrame_ColorsUnmasked(frame) ==
    LET N            == Len(npz.coords[1])
        frame_coords == [i \in 1..Len(npz.coords[frame + 1]) |->
                            [c \in 1..3 |-> RMul(npz.coords[frame + 1][i][c], args.scale)]]
        colors == TrajectoryColors(frame, frame_coords, N)
        vis_mask == [i \in 1..Len(npz.visibs[frame + 1]) |->
                        Visible(npz.visibs[frame + 1][i])]
        masked   == Has("visibs") /\ Len(vis_mask) = Len(frame_coords)
        keep     == IF masked THEN MaskKeep(vis_mask)
                    ELSE [i \in 1..Len(frame_coords) |-> i]
    IN  [vertices |-> [k \in 1..Len(keep) |-> frame_coords[keep[k]]],
         colors   |-> colors]

\* Mutant: the scale factor is not applied.
TrajectoryFrame_Unscaled(frame) ==
    LET N            == Len(npz.coords[1])
        frame_coords == [i \in 1..Len(npz.coords[frame + 1]) |->
                            [c \in 1..3 |-> npz.coords[frame + 1][i][c]]]
        colors == TrajectoryColors(frame, frame_coords, N)
        vis_mask == [i \in 1..Len(npz.visibs[frame + 1]) |->
                        Visible(npz.visibs[frame + 1][i])]
        masked   == Has("visibs") /\ Len(vis_mask) = Len(frame_coords)
        keep     == IF masked THEN MaskKeep(vis_mask)
                    ELSE [i \in 1..Len(frame_coords) |-> i]
    IN  [vertices |-> [k \in 1..Len(keep) |-> frame_coords[keep[k]]],
         colors   |-> IF masked THEN [k \in 1..Len(keep) |-> colors[keep[k]]]
                      ELSE colors]

\* One pass of the trajectory loop, as what it hands to
\* write_ply_with_colors.  With colour source 'depth' the min() of an empty
\* coords array raises.
TrajectoryRaises == args.color_source = "depth" /\ AllZ = <<>>

TrajectoryFrame(frame) ==
    LET N            == Len(npz.coords[1])
        frame_coords == [i \in 1..Len(npz.coords[frame + 1]) |->
                            [c \in 1..3 |-> RMul(npz.coords[frame + 1][i][c], args.scale)]]
        colors == TrajectoryColors(frame, frame_coords, N)
        vis_mask == [i \in 1..Len(npz.visibs[frame + 1]) |->
                        Visible(npz.visibs[frame + 1][i])]
        masked   == Has("visibs") /\ Len(vis_mask) = Len(frame_coords)
        keep     == IF masked THEN MaskKeep(vis_mask)
                    ELSE [i \in 1..Len(frame_coords) |-> i]
    IN  [vertices |-> [k \in 1..Len(keep) |-> frame_coords[keep[k]]],
         colors   |-> IF masked THEN [k \in 1..Len(keep) |-> colors[keep[k]]]
                      ELSE colors]

\* The file as found on disk: whole (cut = its body length) or cut short
\* after `cut` bytes of the body.
Truncated(file, cut) == [header |-> file.header, body |-> SubSeq(file.body, 1, cut)]

\* open(filepath, 'wb') and the writes of write_ply_with_colors.
WriteFrame(path, vertices, colors) ==
    /\ files' = (path :> write_ply_with_colors(vertices, colors)) @@ files
    /\ calls' = Append(calls, [path |-> path, vertices |-> vertices,
                               colors |-> colors])

\* Mutant: the trajectory loop runs from the last frame down to the first.
ExportTrajectoryFrame_Descending ==
    /\ pc = "trajectory"
    /\ t < T
    /\ IF TrajectoryRaises
       THEN /\ pc' = "failed"
            /\ error' = "zero-size array to reduction operation minimum which has no identity"
            /\ UNCHANGED <<t, files, calls>>
       ELSE /\ LET f == TrajectoryFrame(T - 1 - t)
               IN  WriteFrame(FramePath("trajectory", T - 1 - t), f.vertices, f.colors)
            /\ t' = IF t + 1 < T THEN t + 1 ELSE 0
            /\ pc' = IF t + 1 < T THEN pc ELSE AfterTrajectory
            /\ error' = error
    /\ UNCHANGED <<npz, args, T, intr, video_colors, dirs, metadata, recon, parsed, foreign, scene>>

ExportTrajectoryFrame ==
    /\ pc = "trajectory"
    /\ t < T
    /\ IF TrajectoryRaises
       THEN /\ pc' = "failed"
            /\ error' = "zero-size array to reduction operation minimum which has no identity"
            /\ UNCHANGED <<t, files, calls>>
       ELSE /\ LET f == TrajectoryFrame(t)
               IN  WriteFrame(FramePath("trajectory", t), f.vertices, f.colors)
            /\ t' = IF t + 1 < T THEN t + 1 ELSE 0
            /\ pc' = IF t + 1 < T THEN pc ELSE AfterTrajectory
            /\ error' = error
    /\ UNCHANGED <<npz, args, T, intr, video_colors, dirs, metadata, recon, parsed, foreign, scene>>

\* A dense frame is written only when it has a vertex.
WritesDenseFrame(cloud) == Len(cloud.vertices) > 0

ExportDenseFrame ==
    /\ pc = "dense"
    /\ t < T
    /\ LET video_frame == IF video_colors /= <<>> THEN video_colors[t + 1] ELSE <<>>
           cloud == depth_to_point_cloud(npz.depths[t + 1], intr,
                                         args.color_source, video_frame, args.scale)
       IN  IF cloud.status /= "ok"
           THEN /\ pc' = "failed"
                /\ error' = cloud.status
                /\ UNCHANGED <<t, files, calls, recon>>
           ELSE /\ recon' = [frame |-> t, vertices |-> cloud.vertices,
                             colors |-> cloud.colors, ys |-> cloud.ys, xs |-> cloud.xs]
                /\ IF WritesDenseFrame(cloud)
                   THEN WriteFrame(FramePath("pointcloud", t), cloud.vertices, cloud.colors)
                   ELSE UNCHANGED <<files, calls>>
                /\ t' = IF t + 1 < T THEN t + 1 ELSE 0
                /\ pc' = IF t + 1 < T THEN pc ELSE "metadata"
                /\ error' = error
    /\ UNCHANGED <<npz, args, T, intr, video_colors, dirs, metadata, parsed, foreign, scene>>

\* Mutant: trajectory_points is always part of the record.
MetadataRecord_AlwaysPoints ==
    [fps |-> args.fps, scale |-> args.scale, color_source |-> args.color_source,
     total_frames |-> T,
     keys |-> {"fps", "scale", "color_source", "total_frames", "export_time",
               "trajectory_points"},
     trajectory_points |-> IF Has("coords") THEN Len(npz.coords[1]) ELSE 0]

\* write_ply_with_colors when an f.write raises OSError after `cut` bytes
\* of the body: the file was opened under its final name with mode 'wb', so
\* what was written stays there, and the error leaves export_ply_sequence.
WriteFrameFails(path, vertices, colors, cut) ==
    /\ files' = (path :> Truncated(write_ply_with_colors(vertices, colors), cut))
                    @@ files
    /\ calls' = Append(calls, [path |-> path, vertices |-> vertices,
                               colors |-> colors])
    /\ pc' = "failed"
    /\ error' = "OSError"

\* The trajectory write of frame t fails part-way.
FailTrajectoryWrite ==
    /\ pc = "trajectory"
    /\ t < T
    /\ ~TrajectoryRaises
    /\ LET f == TrajectoryFrame(t)
       IN  \E cut \in 0..(15 * Min2(Len(f.vertices), Len(f.colors)) - 1) :
              WriteFrameFails(FramePath("trajectory", t), f.vertices, f.colors, cut)
    /\ UNCHANGED <<npz, args, T, intr, video_colors, t, dirs, metadata, recon,
                   parsed, foreign, scene>>

\* The dense write of frame t fails part-way.
FailDenseWrite ==
    /\ pc = "dense"
    /\ t < T
    /\ LET video_frame == IF video_colors /= <<>> THEN video_colors[t + 1] ELSE <<>>
           cloud == depth_to_point_cloud(npz.depths[t + 1], intr,
                                         args.color_source, video_frame, args.scale)
       IN  /\ cloud.status = "ok"
           /\ WritesDenseFrame(cloud)
           /\ recon' = [frame |-> t, vertices |-> cloud.vertices,
                        colors |-> cloud.colors, ys |-> cloud.ys, xs |-> cloud.xs]
           /\ \E cut \in 0..(15 * Len(cloud.vertices) - 1) :
                 WriteFrameFails(FramePath("pointcloud", t), cloud.vertices,
                                 cloud.colors, cut)
    /\ UNCHANGED <<npz, args, T, intr, video_colors, t, dirs, metadata,
                   parsed, foreign, scene>>

\* data.close() and the json.dump of the metadata record.
MetadataRecord ==
    [fps |-> args.fps, scale |-> args.scale, color_source |-> args.color_source,
     total_frames |-> T,
     keys |-> {"fps", "scale", "color_source", "total_frames", "export_time"}
              \cup (IF Has("coords") THEN {"trajectory_points"} ELSE {}),
     trajectory_points |-> IF Has("coords") THEN Len(npz.coords[1]) ELSE 0]

WriteMetadata ==
    /\ pc = "metadata"
    /\ metadata' = Append(metadata, MetadataRecord)
    /\ pc' = "done"
    /\ UNCHANGED <<npz, args, T, intr, video_colors, t, dirs, files, error, calls, recon, parsed, foreign, scene>>

\* ----------------------------------------------------------- parse_ply_file
\* The importer is run on the directory of a finished (or failed) export;
\* one call of parse_ply_file, on any frame file, whole or cut short.
ParseFile ==
    /\ pc \in {"done", "failed"}
    /\ ~parsed.called /\ ~foreign.called
    /\ \E path \in DOMAIN files :
       \E cut \in 0..Len(files[path].body) :
          LET out == parse_ply_file(Truncated(files[path], cut))
          IN  parsed' = [called |-> TRUE, dir |-> path.dir,
                         frame |-> ParseInt(path.index), cut |-> cut,
                         status |-> out.status, vertices |-> out.vertices,
                         colors |-> out.colors]
    /\ UNCHANGED <<npz, args, pc, T, intr, video_colors, t, dirs, files, metadata, error,
                   calls, recon, foreign, scene>>

\* A binary PLY file that another tool wrote: the records of an exported
\* frame under a header of its own.  "no vertex line": the header the
\* exporter writes, less its `element vertex <N>` line.
ForeignKinds == {"no vertex line"}

\* Barer files yet.  "no colour": no `property uchar` lines, and records of
\* three float32.  "no end_header": the header less its last line.
\* "empty": a file of no bytes.
BareKinds == {"no colour", "no end_header", "empty"}

ForeignHeader(header, kind) ==
    IF kind = "no vertex line"
    THEN SelectSeq(header, LAMBDA line : line.text /= "element vertex")
    ELSE IF kind = "no colour"
    THEN SelectSeq(header, LAMBDA line :
            line.text \notin {"property uchar red", "property uchar green",
                              "property uchar blue"})
    ELSE IF kind = "no end_header"
    THEN SelectSeq(header, LAMBDA line : ~IsEndHeader(line))
    ELSE IF kind = "empty" THEN <<>>
    ELSE header

\* The 12 position bytes of each 15-byte record.
PositionBytes(body) ==
    [k \in 1..(12 * (Len(body) \div 15)) |->
        body[15 * ((k - 1) \div 12) + ((k - 1) % 12) + 1]]

ForeignBody(body, kind) ==
    IF kind = "no colour" THEN PositionBytes(body)
    ELSE IF kind = "empty" THEN <<>>
    ELSE body

\* One call of parse_ply_file on such a file.
ParseForeignFile ==
    /\ pc \in {"done", "failed"}
    /\ ~parsed.called /\ ~foreign.called
    /\ \E path \in DOMAIN files : \E kind \in ForeignKinds :
          LET out == parse_ply_file([header |-> ForeignHeader(files[path].header, kind),
                                     body   |-> ForeignBody(files[path].body, kind)])
          IN  foreign' = [called |-> TRUE, kind |-> kind, dir |-> path.dir,
                          frame |-> ParseInt(path.index),
                          status |-> out.status, vertices |-> out.vertices,
                          colors |-> out.colors]
    /\ UNCHANGED <<npz, args, pc, T, intr, video_colors, t, dirs, files, metadata, error,
                   calls, recon, parsed, scene>>

\* One call of parse_ply_file on a bare file.
ParseBareFile ==
    /\ pc \in {"done", "failed"}
    /\ ~parsed.called /\ ~foreign.called
    /\ \E path \in DOMAIN files : \E kind \in BareKinds :
          LET out == parse_ply_file([header |-> ForeignHeader(files[path].header, kind),
                                     body   |-> ForeignBody(files[path].body, kind)])
          IN  foreign' = [called |-> TRUE, kind |-> kind, dir |-> path.dir,
                          frame |-> ParseInt(path.index),
                          status |-> out.status, vertices |-> out.vertices,
                          colors |-> out.colors]
    /\ UNCHANGED <<npz, args, pc, T, intr, video_colors, t, dirs, files, metadata, error,
                   calls, recon, parsed, scene>>

\* ------------------------------------------------------ import_ply_sequence
\* output_dir / 'metadata.json': the export root, of which trajectory/ and
\* pointcloud/ are sub-directories.
MetadataFolder == "."

\* sorted() on the paths of one folder: by name, character by character.
RECURSIVE NameLess(_, _)
NameLess(a, b) ==
    IF a = <<>> THEN b /= <<>>
    ELSE IF b = <<>> THEN FALSE
    ELSE IF Head(a) /= Head(b) THEN Head(a) < Head(b)
    ELSE NameLess(Tail(a), Tail(b))

\* sorted(folder.glob("frame_*.ply")) for the folder of first_frame_path.
find_ply_sequence(first_frame_path) ==
    LET folder == first_frame_path.dir
        found  == {p \in DOMAIN files : p.dir = folder}
        Rank(p) == Cardinality({q \in found : NameLess(q.index, p.index)}) + 1
    IN  [k \in 1..Cardinality(found) |-> CHOOSE p \in found : Rank(p) = k]

\* The json of folder / 'metadata.json', <<>> (None) when it is not there.
load_metadata(folder) ==
    IF folder = MetadataFolder /\ metadata /= <<>>
    THEN metadata[Len(metadata)]
    ELSE <<>>

\* Mutant: no keyframe that hides the object before its frame.
Keyframes_NoHideBefore(current_frame) ==
    << [time2 |-> 2 * current_frame,     hide |-> FALSE],
       [time2 |-> 2 * current_frame + 1, hide |-> TRUE] >>

\* The keyframes of hide_viewport / hide_render in insertion order, at
\* current_frame - 0.5, current_frame and current_frame + 0.5; times are
\* kept doubled.
Keyframes(current_frame) ==
    << [time2 |-> 2 * current_frame - 1, hide |-> TRUE],
       [time2 |-> 2 * current_frame,     hide |-> FALSE],
       [time2 |-> 2 * current_frame + 1, hide |-> TRUE] >>

\* The loop over enumerate(ply_files), i counted from 0; an exception of
\* parse_ply_file leaves the loop with the objects made so far.
RECURSIVE ImportFrames(_, _, _, _)
ImportFrames(ply_files, i, frame_start, objects) ==
    IF i >= Len(ply_files) THEN [status |-> "ok", objects |-> objects]
    ELSE
    LET ply_path == ply_files[i + 1]
        out      == parse_ply_file(files[ply_path])
    IN  IF out.status /= "ok"
        THEN [status |-> out.status, objects |-> objects]
        ELSE IF Len(out.vertices) = 0
        THEN ImportFrames(ply_files, i + 1, frame_start, objects)
        ELSE ImportFrames(ply_files, i + 1, frame_start,
                 Append(objects,
                        [name |-> [prefix |-> "Points_", index |-> ZeroPad(Digits(i), 4)],
                         file |-> ply_path,
                         vertices |-> out.vertices,
                         colors |-> out.colors,
                         keyframes |-> Keyframes(frame_start + i)]))

import_ply_sequence(filepath, frame_start) ==
    LET folder    == filepath.dir
        ply_files == find_ply_sequence(filepath)
        meta      == load_metadata(folder)
        fps       == IF meta /= <<>> /\ "fps" \in meta.keys THEN meta.fps ELSE 30
        loop      == ImportFrames(ply_files, 0, frame_start, <<>>)
    IN  IF Len(ply_files) = 0
        THEN [called |-> TRUE, status |-> "ValueError", folder |-> folder,
              frame_start |-> 0, frame_end |-> 0, fps |-> 0, objects |-> <<>>]
        ELSE [called |-> TRUE, status |-> loop.status, folder |-> folder,
              frame_start |-> frame_start,
              frame_end |-> frame_start + Len(ply_files) - 1,
              fps |-> fps, objects |-> loop.objects]

\* frame_start of the operator: an integer, at least 1.
FrameStarts == {1, 3}

\* The operator run on a file the user picked in a folder of the export.
ImportSequence ==
    /\ pc \in {"done", "failed"}
    /\ ~scene.called
    /\ \E filepath \in DOMAIN files : \E frame_start \in FrameStarts :
          scene' = import_ply_sequence(filepath, frame_start)
    /\ UNCHANGED <<npz, args, pc, T, intr, video_colors, t, dirs, files, metadata,
                   error, calls, recon, parsed, foreign>>

Next ==
    \/ Load
    \/ MakeDirs
    \/ Prepare
    \/ ExportTrajectoryFrame
    \/ ExportDenseFrame
    \/ WriteMetadata
    \/ ParseFile
    \/ ParseForeignFile

Spec == Init /\ [][Next]_vars

\* The exporter alone: one run of export_ply_sequence, no importer.
ExportNext ==
    \/ Load
    \/ MakeDirs
    \/ Prepare
    \/ ExportTrajectoryFrame
    \/ ExportDenseFrame
    \/ WriteMetadata

ExportSpec == Init /\ [][ExportNext]_vars

\* The exporter on a disk whose writes can fail, on the datasets with both
\* arrays and the two-point trajectory.
FaultyDiskInit == InitWith(BothInputs \cup RepeatInputs)

FaultyDiskNext ==
    \/ Load
    \/ MakeDirs
    \/ Prepare
    \/ ExportTrajectoryFrame
    \/ ExportDenseFrame
    \/ WriteMetadata
    \/ FailTrajectoryWrite
    \/ FailDenseWrite

FaultyDiskSpec == FaultyDiskInit /\ [][FaultyDiskNext]_vars

\* The reader on whole, cut and foreign files of every kind, after an export
\* of the datasets with both arrays or of the two-point trajectory.
ReaderInit == InitWith(BothInputs \cup RepeatInputs)

ReaderNext ==
    \/ Load
    \/ MakeDirs
    \/ Prepare
    \/ ExportTrajectoryFrame
    \/ ExportDenseFrame
    \/ WriteMetadata
    \/ ParseFile
    \/ ParseForeignFile
    \/ ParseBareFile

ReaderSpec == ReaderInit /\ [][ReaderNext]_vars

\* Export with a frame rate of 24 or 30, then import: the datasets with both
\* arrays, the two-point trajectory and the two-frame trajectories.
ImportInputs ==
    { <<in[1], [in[2] EXCEPT !.fps = f]>> :
        in \in BothInputs \cup RepeatInputs
                \cup {s \in SparseInputs : s[1].T = 2 /\ s[2].color_source = "white"},
        f \in {24, 30} }

ImportInit == InitWith(ImportInputs)

ImportNext ==
    \/ Load
    \/ MakeDirs
    \/ Prepare
    \/ ExportTrajectoryFrame
    \/ ExportDenseFrame
    \/ WriteMetadata
    \/ ImportSequence

ImportSpec == ImportInit /\ [][ImportNext]_vars

\* The exporter on the datasets with degenerate intrinsics.
DegenerateInit == InitWith(DegenerateInputs)

DegenerateSpec == DegenerateInit /\ [][ExportNext]_vars

\* The same program on the datasets that hold a video.
VideoInit == InitWith(VideoInputs)

VideoSpec == VideoInit /\ [][Next]_vars

\* =================================================================== claims
\* Helpers of the claims below.
IsPositive(q) == q[1] > 0
Scaled(point) == [c \in 1..3 |-> RMul(point[c], args.scale)]
LastCallFor(path) ==
    calls[CHOOSE k \in 1..Len(calls) :
            /\ calls[k].path = path
            /\ \A j \in (k + 1)..Len(calls) : calls[j].path /= path]
DeclaredCount(file) == ParseInt(file.header[3].num)
ColorAsRead(c) == <<R(c[1], 255), R(c[2], 255), R(c[3], 255), I(1)>>
\* The k-th smallest element of a finite set of integers.
Nth(S, k) == CHOOSE i \in S : Cardinality({j \in S : j <= i}) = k
ParsedPath == FramePath(parsed.dir, parsed.frame)
ParsedWhole == parsed.called /\ parsed.cut = Len(files[ParsedPath].body)

\* C1: a frame written by write_ply_with_colors and read back whole by
\* parse_ply_file comes back with the same number of points, in the same
\* order, the same positions, and each colour channel byte / 255 with
\* alpha 1.
C1_RoundTrip ==
    ParsedWhole =>
        LET call == LastCallFor(ParsedPath)
        IN  /\ parsed.status = "ok"
            /\ Len(parsed.vertices) = Len(call.vertices)
            /\ Len(parsed.colors) = Len(call.vertices)
            /\ \A k \in 1..Len(call.vertices) :
                  /\ parsed.vertices[k] = call.vertices[k]
                  /\ parsed.colors[k] = ColorAsRead(call.colors[k])

C1_Witness ==
    /\ ParsedWhole
    /\ parsed.status = "ok"
    /\ Len(parsed.vertices) >= 2
    /\ \E k \in 1..Len(parsed.vertices) :
          /\ parsed.vertices[k][1][2] > 1
          /\ parsed.vertices[k][1][1] < 0
          /\ parsed.colors[k] /= <<I(1), I(1), I(1), I(1)>>

\* C2 as stated: in every file written, the header count times 18 bytes is
\* the length of the body, and the count is the number of positions and of
\* colours passed in.
C2_AsStated ==
    \A k \in 1..Len(calls) :
        LET file == files[calls[k].path]
        IN  /\ Len(file.body) = 18 * DeclaredCount(file)
            /\ DeclaredCount(file) = Len(calls[k].vertices)
            /\ DeclaredCount(file) = Len(calls[k].colors)

\* C2 (amended): in every file written, in any export, the count on the
\* `element vertex` line equals the number of 15-byte records in the body
\* (3 float32 and 3 bytes) and the number of positions and of colours passed
\* to write_ply_with_colors.
C2_HeaderCount ==
    \A k \in 1..Len(calls) :
        LET file == files[calls[k].path]
        IN  /\ Len(file.body) = 15 * DeclaredCount(file)
            /\ DeclaredCount(file) = Len(calls[k].vertices)
            /\ DeclaredCount(file) = Len(calls[k].colors)

C2_Witness ==
    \E k \in 1..Len(calls) :
        /\ calls[k].path.dir = "trajectory"
        /\ Has("visibs")
        /\ Len(calls[k].vertices) = 2
        /\ Len(npz.coords[1]) = 3
        /\ Len(files[calls[k].path].body) = 30

\* C3: depth_to_point_cloud returns one point per pixel with depth > 0, in
\* row-major order, none for a pixel with depth <= 0, and as many colours as
\* points.
C3_DepthFilter ==
    recon.frame >= 0 =>
        LET depth == npz.depths[recon.frame + 1]
            H == Len(depth)
            W == Len(depth[1])
            n == Len(recon.vertices)
            Flat(k) == recon.ys[k] * W + recon.xs[k]
        IN  /\ Len(recon.colors) = n
            /\ Len(recon.ys) = n /\ Len(recon.xs) = n
            /\ n = Cardinality({p \in (1..H) \X (1..W) : IsPositive(depth[p[1]][p[2]])})
            /\ \A k \in 1..n :
                  /\ recon.ys[k] \in 0..(H - 1) /\ recon.xs[k] \in 0..(W - 1)
                  /\ IsPositive(depth[recon.ys[k] + 1][recon.xs[k] + 1])
                  /\ recon.vertices[k][3] =
                        RMul(depth[recon.ys[k] + 1][recon.xs[k] + 1], args.scale)
            /\ \A k \in 1..(n - 1) : Flat(k) < Flat(k + 1)

C3_Witness ==
    /\ recon.frame >= 0
    /\ Len(recon.vertices) = 2
    /\ LET depth == npz.depths[recon.frame + 1]
       IN  /\ Len(depth) = 2 /\ Len(depth[1]) = 2
           /\ depth[1][1] = I(0) /\ depth[1][2] = I(2)
           /\ depth[2][1] = I(1) /\ depth[2][2] = I(-1)

\* C4: the point of pixel (px, py) with depth d > 0 is
\* scale * ((px - cx) * d / fx, (py - cy) * d / fy, d) for the intrinsics
\* handed to depth_to_point_cloud; with fx = fy = 256, cx = 128, cy = 96 and
\* scale 1 the pixel (128, 96) goes to (0, 0, d).
C4_Unprojection ==
    /\ recon.frame >= 0 =>
        \A k \in 1..Len(recon.vertices) :
            LET d  == npz.depths[recon.frame + 1][recon.ys[k] + 1][recon.xs[k] + 1]
                v  == recon.vertices[k]
            IN  /\ RMul(v[1], intr[1][1]) =
                      RMul(args.scale, RMul(RSub(I(recon.xs[k]), intr[1][3]), d))
                /\ RMul(v[2], intr[2][2]) =
                      RMul(args.scale, RMul(RSub(I(recon.ys[k]), intr[2][3]), d))
                /\ v[3] = RMul(args.scale, d)
    /\ \A d \in {z \in DepthVals : IsPositive(z)} :
          Unproject(128, 96, d, Matrix(I(256), I(256), I(128), I(96)), I(1))
              = <<I(0), I(0), d>>

C4_Witness ==
    /\ recon.frame >= 0
    /\ intr = IntrinsicsA
    /\ args.scale = I(2)
    /\ \E k \in 1..Len(recon.vertices) :
          /\ recon.xs[k] = 0 /\ recon.ys[k] = 1
          /\ recon.vertices[k] = <<I(-2), R(1, 2), I(4)>>

\* Helpers for the trajectory claims: the 1-based indices of frame f (0-based)
\* that the visibility table keeps, and the frame the claims expect.
RowApplies(f) == Has("visibs") /\ Len(npz.visibs[f + 1]) = Len(npz.coords[f + 1])
KeptSet(f) ==
    IF RowApplies(f)
    THEN {i \in 1..Len(npz.coords[f + 1]) :
             2 * npz.visibs[f + 1][i][1] > npz.visibs[f + 1][i][2]}
    ELSE 1..Len(npz.coords[f + 1])
ResolvedColor(f, i) ==
    IF args.color_source = "depth"
    THEN depth_to_color(RMul(npz.coords[f + 1][i][3], args.scale),
                        RMul(SeqMin(AllZ), args.scale),
                        RMul(SeqMax(AllZ), args.scale))
    ELSE <<255, 255, 255>>
TrajectoryCalls == {k \in 1..Len(calls) : calls[k].path.dir = "trajectory"}

\* C5: in sparse mode a frame whose visibility row has N entries is written
\* with exactly the points i with visibs[t][i] > 0.5 (0.5 itself is
\* dropped), in their original order, each with the colour resolved for
\* index i.
C5_VisibilityMask ==
    \A k \in TrajectoryCalls :
        LET f    == ParseInt(calls[k].path.index)
            kept == KeptSet(f)
            n    == Len(calls[k].vertices)
        IN  RowApplies(f) =>
              /\ n = Cardinality(kept)
              /\ Len(calls[k].colors) = n
              /\ \A j \in 1..n :
                    /\ calls[k].vertices[j] = Scaled(npz.coords[f + 1][Nth(kept, j)])
                    /\ calls[k].colors[j] = ResolvedColor(f, Nth(kept, j))

C5_Witness ==
    \E k \in TrajectoryCalls :
        /\ Has("visibs")
        /\ npz.visibs[1] = <<R(9, 10), R(1, 10), R(6, 10)>>
        /\ args.color_source = "depth"
        /\ args.scale = I(1)
        /\ calls[k].vertices = <<npz.coords[1][1], npz.coords[1][3]>>
        /\ calls[k].colors[1] /= calls[k].colors[2]

\* C6: in sparse mode with colour source 'white', once the export is done
\* every frame t in 0..T-1 has its file trajectory/frame_t, which decodes to
\* the positions coords[t][i] * scale of the kept i, in order, each white.
C6_SparseWhite ==
    (pc = "done" /\ Has("coords") /\ args.color_source = "white") =>
        \A f \in 0..(T - 1) :
            /\ FramePath("trajectory", f) \in DOMAIN files
            /\ LET out  == parse_ply_file(files[FramePath("trajectory", f)])
                   body == files[FramePath("trajectory", f)].body
                   kept == KeptSet(f)
               IN  /\ out.status = "ok"
                   /\ Len(out.vertices) = Cardinality(kept)
                   /\ Len(out.colors) = Cardinality(kept)
                   /\ \A j \in 1..Cardinality(kept) :
                         /\ out.vertices[j] = Scaled(npz.coords[f + 1][Nth(kept, j)])
                         /\ out.colors[j] = <<I(1), I(1), I(1), I(1)>>
                         /\ SubSeq(body, 15 * j - 2, 15 * j) = <<255, 255, 255>>

C6_Witness ==
    /\ pc = "done"
    /\ args.color_source = "white"
    /\ args.scale = I(2)
    /\ T = 2
    /\ Has("coords") /\ ~Has("depths")
    /\ npz.coords = << << <<I(1), I(2), I(3)>> >>, << <<I(4), I(5), I(6)>> >> >>
    /\ parse_ply_file(files[FramePath("trajectory", 0)]).vertices
          = << <<I(2), I(4), I(6)>> >>
    /\ parse_ply_file(files[FramePath("trajectory", 1)]).vertices
          = << <<I(8), I(10), I(12)>> >>

\* A frame file that holds no vertex and reads back as the empty frame.
IsEmptyFrameFile(path) ==
    /\ path \in DOMAIN files
    /\ files[path].header[3] = [text |-> "element vertex", num |-> <<0>>]
    /\ files[path].body = <<>>
    /\ parse_ply_file(files[path]).status = "ok"
    /\ parse_ply_file(files[path]).vertices = <<>>

NoValidPixel(f) ==
    \A y \in 1..Len(npz.depths[f + 1]) : \A x \in 1..Len(npz.depths[f + 1][y]) :
        ~IsPositive(npz.depths[f + 1][y][x])

\* C7: a frame that reconstructs to zero points (dense: no pixel with
\* depth > 0; sparse: every point masked out) still gets its file, with
\* `element vertex 0` and an empty body, which reads back as an empty frame.
C7_EmptyFrameWritten ==
    pc = "done" =>
        \A f \in 0..(T - 1) :
            /\ (Has("depths") /\ NoValidPixel(f))
                   => IsEmptyFrameFile(FramePath("pointcloud", f))
            /\ (Has("coords") /\ KeptSet(f) = {})
                   => IsEmptyFrameFile(FramePath("trajectory", f))

\* The files of one sub-directory.
FilesIn(dir) == {path \in DOMAIN files : path.dir = dir}
AllFrames(dir) == {FramePath(dir, f) : f \in 0..(T - 1)}

\* C8: after a successful export each mode that ran has exactly the files
\* frame_000000.ply .. frame_(T-1).ply in its directory, and metadata.json
\* records total_frames = T.
C8_FrameFiles ==
    pc = "done" =>
        /\ Has("coords") => FilesIn("trajectory") = AllFrames("trajectory")
        /\ Has("depths") => FilesIn("pointcloud") = AllFrames("pointcloud")
        /\ Len(metadata) = 1
        /\ metadata[1].total_frames = T

\* C9: with neither coords nor depths export_ply_sequence fails with the
\* error naming both arrays, having created no directory, no frame file and
\* no metadata.json.
C9_NothingToExport ==
    (~Has("coords") /\ ~Has("depths")) =>
        /\ pc \in {"load", "failed"}
        /\ pc = "failed" =>
              error = "NPZ file missing both 'coords' and 'depths' arrays"
        /\ dirs = {}
        /\ DOMAIN files = {}
        /\ metadata = <<>>
        /\ calls = <<>>

C9_Witness ==
    /\ ~Has("coords") /\ ~Has("depths")
    /\ pc = "failed"
    /\ error /= ""

\* C10: parse_ply_file on a file whose body ends before the declared number
\* of records fails with an error and returns no point set.
C10_TruncatedBodyFails ==
    (parsed.called /\ parsed.cut < 15 * DeclaredCount(files[ParsedPath])) =>
        /\ parsed.status = "error"
        /\ parsed.vertices = <<>>
        /\ parsed.colors = <<>>

C10_Witness ==
    /\ parsed.called
    /\ DeclaredCount(files[ParsedPath]) = 2
    /\ parsed.cut = 29
    /\ parsed.status = "error"

\* C11: parse_ply_file on a file whose header has no `element vertex <N>`
\* line fails with a parse error and returns no point set.
C11_NoVertexLineFails ==
    (foreign.called /\ foreign.kind = "no vertex line") =>
        foreign.status = "error"

\* The case of C11 as the code handles it: a file with records in its body
\* and no vertex line is read as an empty frame, without an error.
C11_ReadAsEmpty ==
    /\ foreign.called /\ foreign.kind = "no vertex line"
    /\ files[FramePath(foreign.dir, foreign.frame)].body /= <<>>
    /\ foreign.status = "ok"
    /\ foreign.vertices = <<>> /\ foreign.colors = <<>>

\* The colours written for the points at the two ends of the depth range
\* under colour source 'depth': `lo` at normalised depth 0 (the smallest
\* depth), `hi` at normalised depth 1 (the largest, when it is larger).
SparseEnd(which) ==
    IF args.color_source /= "depth" \/ TrajectoryCalls = {} THEN {}
    ELSE
    LET lo     == RMul(SeqMin(AllZ), args.scale)
        hi     == RMul(SeqMax(AllZ), args.scale)
        target == IF which = "lo" THEN lo ELSE hi
    IN  IF which = "hi" /\ lo = hi THEN {}
        ELSE UNION { { calls[k].colors[j] :
                         j \in {i \in 1..Len(calls[k].vertices) :
                                   calls[k].vertices[i][3] = target} } :
                     k \in TrajectoryCalls }
DenseEnd(which) ==
    IF args.color_source /= "depth" \/ recon.vertices = <<>> THEN {}
    ELSE
    LET zs     == [n \in 1..Len(recon.vertices) |-> recon.vertices[n][3]]
        lo     == SeqMin(zs)
        hi     == SeqMax(zs)
        target == IF which = "lo" THEN lo ELSE hi
    IN  IF which = "hi" /\ lo = hi THEN {}
        ELSE { recon.colors[j] : j \in {i \in 1..Len(zs) : zs[i] = target} }
HasSaturatedAndZero(c) ==
    (\E ch \in 1..3 : c[ch] = 255) /\ (\E ch \in 1..3 : c[ch] = 0)

\* C12 as stated: the colour depth_to_color gives at normalised depth 0 and
\* at normalised depth 1 has a channel equal to 255 and a channel equal to 0.
C12_AsStated ==
    \A c \in SparseEnd("lo") \cup SparseEnd("hi")
              \cup DenseEnd("lo") \cup DenseEnd("hi") :
        HasSaturatedAndZero(c)

\* C12 (amended): with channels clamp(1.5 - 4*|n - breakpoint|, 0, 1) * 255
\* truncated, breakpoints 0.75, 0.5, 0.25, the colour at normalised depth 0
\* is (0, 0, 127) and the colour at normalised depth 1 is (127, 0, 0): two
\* channels are 0 and the third is half saturated, none is 255.  The last
\* conjunct applies depth_to_color to a depth above max_depth, which the
\* clip brings to exactly 1.
C12_JetEnds ==
    /\ \A c \in SparseEnd("lo") \cup DenseEnd("lo") : c = <<0, 0, 127>>
    /\ \A c \in SparseEnd("hi") \cup DenseEnd("hi") : c = <<127, 0, 0>>
    /\ \A d \in DepthVals :
          /\ depth_to_color(d, d, RAdd(d, I(1))) = <<0, 0, 127>>
          /\ depth_to_color(RAdd(d, I(2)), d, RAdd(d, I(1))) = <<127, 0, 0>>

C12_Witness ==
    /\ <<0, 0, 127>> \in SparseEnd("lo")
    /\ <<127, 0, 0>> \in SparseEnd("hi")
    /\ pc = "done"

\* The bytes of colour j (1-based) in the body of a frame file.
ColorBytes(file, j) == SubSeq(file.body, 15 * j - 2, 15 * j)
IsByte(c) == c \in 0..255
\* v * 255 before the cast to uint8
Times255(v) == RMul(v, I(255))

\* C13: every colour channel handed to write_ply_with_colors, for every
\* colour source and both video value ranges, is a whole number in 0..255
\* and is the byte written; every value of a prepared video frame is the
\* stored value, or 255 times it with 0 <= 255 * v <= 255 truncated.  No
\* cast to uint8 wraps and none meets a negative number.
C13_NoWrap ==
    /\ \A k \in 1..Len(calls) : \A j \in 1..Len(calls[k].colors) :
          /\ Len(calls[k].colors[j]) = 3
          /\ \A ch \in 1..3 : IsByte(calls[k].colors[j][ch])
          /\ j <= Len(calls[k].vertices) =>
                ColorBytes(files[calls[k].path], j) = calls[k].colors[j]
    /\ \A f \in 1..Len(video_colors) :
          LET raw    == FrameValues(npz.video[f])
              cooked == FrameValues(video_colors[f])
          IN  /\ Len(cooked) = Len(raw)
              /\ \A i \in 1..Len(cooked) :
                    /\ cooked[i][2] = 1 /\ IsByte(cooked[i][1])
                    /\ \E r \in 1..Len(raw) :
                          \/ cooked[i] = raw[r]
                          \/ /\ RLe(I(0), Times255(raw[r]))
                             /\ RLe(Times255(raw[r]), I(255))
                             /\ cooked[i][1] = RFloor(Times255(raw[r]))

C13_Witness ==
    /\ pc = "done"
    /\ args.color_source = "video"
    /\ Has("depths")
    /\ npz.video[1][1][1][1] = R(1, 128)
    /\ \E k \in 1..Len(calls) :
          calls[k].colors = << <<1, 81, 161>>, <<5, 85, 165>> >>

\* The matrix C14 expects for frame f (0-based): intrinsics[f] of a (T,3,3)
\* array, the one matrix of a (3,3) array.
IntrinsicsOf(f) ==
    IF npz.intrinsics.ndim = 3 THEN npz.intrinsics.a[f + 1] ELSE npz.intrinsics.a

\* C14: in dense mode frame t is unprojected with intrinsics[t] when the
\* intrinsics are per frame, (T,3,3), and with the one matrix when they are
\* shared, (3,3).
C14_PerFrameIntrinsics ==
    (recon.frame >= 0 /\ Has("intrinsics")) =>
        \A k \in 1..Len(recon.vertices) :
            recon.vertices[k] =
                Unproject(recon.xs[k], recon.ys[k],
                          npz.depths[recon.frame + 1][recon.ys[k] + 1][recon.xs[k] + 1],
                          IntrinsicsOf(recon.frame), args.scale)

\* The case of C14 as the code handles it: frame 1 of a dataset with
\* per-frame intrinsics is unprojected with the matrix of frame 0.
C14_FirstMatrixReused ==
    /\ recon.frame = 1
    /\ Has("intrinsics") /\ npz.intrinsics.ndim = 3
    /\ npz.intrinsics.a[2] /= npz.intrinsics.a[1]
    /\ intr = npz.intrinsics.a[1]
    /\ \E k \in 1..Len(recon.vertices) :
          /\ recon.vertices[k] =
                Unproject(recon.xs[k], recon.ys[k],
                          npz.depths[2][recon.ys[k] + 1][recon.xs[k] + 1],
                          npz.intrinsics.a[1], args.scale)
          /\ recon.vertices[k] /=
                Unproject(recon.xs[k], recon.ys[k],
                          npz.depths[2][recon.ys[k] + 1][recon.xs[k] + 1],
                          npz.intrinsics.a[2], args.scale)

\* What the video claims expect.  The byte of a stored value: 255 times it,
\* truncated, for a normalised video, the value itself for a byte video.
\* The RGB of frame f at row y, column x (all 0-based) in the layout the
\* video was produced in, and the per-channel mean over the pixels of
\* frame f, truncated.
ExpectedByte(v) ==
    IF npz.video_range = "unit" THEN RFloor(Times255(v)) ELSE RFloor(v)
VideoPixel(f, y, x) ==
    [c \in 1..3 |->
        ExpectedByte(IF npz.video_layout = "first"
                     THEN npz.video[f + 1][c][y + 1][x + 1]
                     ELSE npz.video[f + 1][y + 1][x + 1][c])]
VideoHeight ==
    IF npz.video_layout = "first" THEN Len(npz.video[1][1]) ELSE Len(npz.video[1])
VideoWidth ==
    IF npz.video_layout = "first" THEN Len(npz.video[1][1][1]) ELSE Len(npz.video[1][1])
ExpectedMean(f) ==
    [c \in 1..3 |->
        RFloor(RDiv(
            RSum(Flatten([y \in 1..VideoHeight |-> [x \in 1..VideoWidth |->
                             I(VideoPixel(f, y - 1, x - 1)[c])]])),
            I(VideoHeight * VideoWidth)))]

\* C15: in dense mode with colour source 'video' and a video present, the
\* export raises nothing and the colour of the point of each pixel (y, x)
\* with depth > 0 is the RGB of the same frame's video at (y, x), in both
\* layouts and for every frame height and width.
C15_VideoSampled ==
    (Has("depths") /\ Has("video") /\ args.color_source = "video") =>
        /\ pc /= "failed"
        /\ recon.frame >= 0 =>
              \A k \in 1..Len(recon.vertices) :
                  recon.colors[k] = VideoPixel(recon.frame, recon.ys[k], recon.xs[k])

\* The cases of C15 as the code handles them: a byte-range video of height
\* 3 sampled at the wrong place, and one that ends the export with an
\* IndexError.
C15_HeightThreeWrongPixel ==
    /\ Has("depths") /\ Has("video") /\ args.color_source = "video"
    /\ npz.video_range = "byte" /\ VideoHeight = 3
    /\ recon.frame >= 0
    /\ \E k \in 1..Len(recon.vertices) :
          recon.colors[k] /= VideoPixel(recon.frame, recon.ys[k], recon.xs[k])

C15_HeightThreeIndexError ==
    /\ Has("depths") /\ Has("video") /\ args.color_source = "video"
    /\ npz.video_range = "byte" /\ VideoHeight = 3
    /\ npz.video_layout = "first"
    /\ pc = "failed" /\ error = "IndexError"

\* C16: in sparse mode with colour source 'video' and a video present,
\* every point of trajectory frame t has the same colour, the per-channel
\* mean over all pixels of video frame t (on the 0..255 scale, truncated),
\* in both layouts and for every frame size.
C16_MeanColor ==
    (Has("coords") /\ Has("video") /\ args.color_source = "video") =>
        \A k \in TrajectoryCalls :
            \A j \in 1..Len(calls[k].colors) :
                calls[k].colors[j] = ExpectedMean(ParseInt(calls[k].path.index))

\* The case of C16 as the code handles it: a channel-last byte-range video
\* of height 3 is transposed as if it were channel first, and the mean is
\* taken over the wrong axes.
C16_HeightThreeWrongMean ==
    /\ Has("coords") /\ Has("video") /\ args.color_source = "video"
    /\ npz.video_range = "byte" /\ npz.video_layout = "last" /\ VideoHeight = 3
    /\ \E k \in TrajectoryCalls :
          /\ calls[k].colors /= <<>>
          /\ calls[k].colors[1] = <<82, 98, 114>>
          /\ ExpectedMean(0) = <<18, 98, 178>>

\* C17: with colour source 'video' and no video array the export (of a
\* dataset that holds coords or depths) does not abort, every point written in either mode is white, every mode that
\* runs ends with its T frame files, and with no visibs array every
\* trajectory frame keeps all N points.
C17_VideoFallback ==
    (args.color_source = "video" /\ ~Has("video")
        /\ (Has("coords") \/ Has("depths"))) =>
        /\ pc /= "failed"
        /\ \A k \in 1..Len(calls) :
              /\ \A j \in 1..Len(calls[k].colors) : calls[k].colors[j] = White
              /\ \A j \in 1..Len(calls[k].vertices) :
                    ColorBytes(files[calls[k].path], j) = <<255, 255, 255>>
        /\ pc = "done" =>
              /\ Has("coords") => FilesIn("trajectory") = AllFrames("trajectory")
              /\ Has("depths") => FilesIn("pointcloud") = AllFrames("pointcloud")
        /\ ~Has("visibs") =>
              \A k \in TrajectoryCalls :
                  LET f == ParseInt(calls[k].path.index)
                  IN  calls[k].vertices =
                          [i \in 1..Len(npz.coords[f + 1]) |-> Scaled(npz.coords[f + 1][i])]

\* C17 but for the file count of dense mode: everything C17 states, with
\* a dense frame file for each frame that has a pixel with depth > 0.
C17_ExceptEmptyDenseFrames ==
    (args.color_source = "video" /\ ~Has("video")
        /\ (Has("coords") \/ Has("depths"))) =>
        /\ pc /= "failed"
        /\ \A k \in 1..Len(calls) :
              /\ \A j \in 1..Len(calls[k].colors) : calls[k].colors[j] = White
              /\ \A j \in 1..Len(calls[k].vertices) :
                    ColorBytes(files[calls[k].path], j) = <<255, 255, 255>>
        /\ pc = "done" =>
              /\ Has("coords") => FilesIn("trajectory") = AllFrames("trajectory")
              /\ Has("depths") =>
                    FilesIn("pointcloud") =
                        {FramePath("pointcloud", f) : f \in {g \in 0..(T - 1) : ~NoValidPixel(g)}}
        /\ ~Has("visibs") =>
              \A k \in TrajectoryCalls :
                  LET f == ParseInt(calls[k].path.index)
                  IN  calls[k].vertices =
                          [i \in 1..Len(npz.coords[f + 1]) |-> Scaled(npz.coords[f + 1][i])]

\* The frame index of a call of write_ply_with_colors.
FrameOf(k) == ParseInt(calls[k].path.index)
DenseCalls == {k \in 1..Len(calls) : calls[k].path.dir = "pointcloud"}

\* C18: metadata.json is written at most once, exactly when the run reaches
\* its end without an error (a failed run has none); at that step the
\* trajectory loop has written its T files and the dense loop has handled
\* its T frames, and no frame file is written afterwards.  The record holds
\* fps, scale, color_source, total_frames = T and export_time, and
\* trajectory_points = N exactly when coords is present.
C18_MetadataLast ==
    /\ [](/\ Len(metadata) <= 1
          /\ (metadata /= <<>>) <=> (pc = "done")
          /\ pc = "failed" => metadata = <<>>
          /\ metadata /= <<>> =>
                /\ metadata[1].fps = args.fps
                /\ metadata[1].scale = args.scale
                /\ metadata[1].color_source = args.color_source
                /\ metadata[1].total_frames = T
                /\ {"fps", "scale", "color_source", "total_frames", "export_time"}
                       \subseteq metadata[1].keys
                /\ ("trajectory_points" \in metadata[1].keys) <=> Has("coords")
                /\ Has("coords") =>
                       metadata[1].trajectory_points = Len(npz.coords[1])
                /\ Has("coords") =>
                       {FrameOf(k) : k \in TrajectoryCalls} = 0..(T - 1)
                /\ Has("depths") => recon.frame = T - 1)
    /\ [][/\ metadata /= <<>> =>
               (metadata' = metadata /\ calls' = calls /\ files' = files)
          /\ metadata' /= metadata =>
               (calls' = calls /\ files' = files /\ error = "")]_vars

C18_Witness ==
    /\ pc = "done"
    /\ Len(metadata) = 1
    /\ Has("coords") /\ Has("depths")
    /\ T = 2
    /\ Len(calls) = 4
    /\ metadata[1].keys = {"fps", "scale", "color_source", "total_frames",
                           "export_time", "trajectory_points"}
    /\ metadata[1].trajectory_points = 1

\* The degenerate data of C19 in the dataset: a depth frame with no pixel
\* above 0, a trajectory frame of which the mask keeps no point, or depth
\* values that are all equal.
HasDegenerateData ==
    \/ Has("depths") /\ \E f \in 0..(Len(npz.depths) - 1) : NoValidPixel(f)
    \/ Has("coords") /\ \E f \in 0..(Len(npz.coords) - 1) : KeptSet(f) = {}
    \/ Has("coords") /\ AllZ /= <<>> /\ SeqMin(AllZ) = SeqMax(AllZ)
    \/ Has("depths") /\ \E f \in 1..Len(npz.depths) :
          Cardinality({npz.depths[f][y][x] :
                          y \in 1..Len(npz.depths[f]), x \in 1..Len(npz.depths[f][1])}) = 1

\* C19: an export whose data is degenerate in one of these ways raises no
\* error.
C19_DegenerateNeverRaises ==
    HasDegenerateData => pc /= "failed"

\* The case of C19 as the code handles it: a trajectory with no point at
\* all and colour source 'depth' ends the export with the ValueError of
\* min() on an empty array, before any file is written.
C19_EmptyTrajectoryRaises ==
    /\ Has("coords") /\ Len(npz.coords[1]) = 0
    /\ args.color_source = "depth"
    /\ pc = "failed"
    /\ error = "zero-size array to reduction operation minimum which has no identity"
    /\ calls = <<>>

\* C19 for trajectories that hold a point: degenerate data raises nothing.
C19_ExceptEmptyTrajectory ==
    (HasDegenerateData /\ (Has("coords") => Len(npz.coords[1]) > 0)) =>
        pc /= "failed"

\* C20 as stated: no file of frame t+1 is written before a file of frame t,
\* whatever the mode.
C20_AsStated ==
    \A j \in 1..Len(calls) : \A k \in (j + 1)..Len(calls) :
        FrameOf(j) <= FrameOf(k)

\* C20 (amended): within each mode the frame files are written in strictly
\* ascending index order, and every trajectory file is written before the
\* first dense file: the export makes one pass per mode.
C20_AscendingPerMode ==
    \A j \in 1..Len(calls) : \A k \in (j + 1)..Len(calls) :
        /\ calls[j].path.dir = calls[k].path.dir => FrameOf(j) < FrameOf(k)
        /\ calls[j].path.dir /= calls[k].path.dir =>
              (j \in TrajectoryCalls /\ k \in DenseCalls)

C20_Witness ==
    /\ Len(calls) = 4
    /\ [k \in 1..4 |-> <<calls[k].path.dir, FrameOf(k)>>] =
          << <<"trajectory", 0>>, <<"trajectory", 1>>,
             <<"pointcloud", 0>>, <<"pointcloud", 1>> >>

\* C21: in sparse mode with colour source 'depth' every point written, in
\* every frame, has the jet colour of its Z normalised by the smallest and
\* the largest Z of all T*N points of the sequence, times scale; two points
\* with the same Z get the same colour, whatever their frames.
C21_SequenceExtrema ==
    args.color_source = "depth" =>
        /\ \A k \in TrajectoryCalls : \A j \in 1..Len(calls[k].vertices) :
              /\ Len(calls[k].colors) = Len(calls[k].vertices)
              /\ calls[k].colors[j] =
                    depth_to_color(calls[k].vertices[j][3],
                                   RMul(SeqMin(AllZ), args.scale),
                                   RMul(SeqMax(AllZ), args.scale))
        /\ \A k1 \in TrajectoryCalls, k2 \in TrajectoryCalls :
              \A j1 \in 1..Len(calls[k1].vertices), j2 \in 1..Len(calls[k2].vertices) :
                  calls[k1].vertices[j1][3] = calls[k2].vertices[j2][3]
                      => calls[k1].colors[j1] = calls[k2].colors[j2]

C21_Witness ==
    /\ args.color_source = "depth"
    /\ npz.coords = RepeatCoords
    /\ args.scale = I(2)
    /\ Len(calls) = 2
    /\ calls[1].vertices[2][3] = I(4) /\ calls[2].vertices[1][3] = I(4)
    /\ calls[1].colors = << <<0, 0, 127>>, <<127, 255, 127>> >>
    /\ calls[2].colors = << <<127, 255, 127>>, <<127, 0, 0>> >>

\* Smallest and largest element of a non-empty set of rationals.
MinOf(S) == CHOOSE m \in S : \A o \in S : RLe(m, o)
MaxOf(S) == CHOOSE m \in S : \A o \in S : RLe(o, m)
\* The depth values of frame f (0-based): all of them, and those above 0.
FrameDepths(f) ==
    {npz.depths[f + 1][y][x] :
        y \in 1..Len(npz.depths[f + 1]), x \in 1..Len(npz.depths[f + 1][1])}
ValidDepths(f) == {d \in FrameDepths(f) : IsPositive(d)}
ReconDepth(k) == npz.depths[recon.frame + 1][recon.ys[k] + 1][recon.xs[k] + 1]

\* C22 as stated: in dense mode with colour source 'depth' the colour of
\* each reconstructed pixel is the jet map of its depth normalised by the
\* smallest and the largest value of the entire depth frame.
C22_AsStated ==
    (recon.frame >= 0 /\ args.color_source = "depth") =>
        \A k \in 1..Len(recon.vertices) :
            recon.colors[k] =
                depth_to_color(ReconDepth(k), MinOf(FrameDepths(recon.frame)),
                               MaxOf(FrameDepths(recon.frame)))

\* C22 (amended): the colour of each reconstructed pixel is the jet map of
\* its depth normalised by the smallest and the largest of the frame's
\* depths above 0, the depths of the reconstructed pixels.
C22_ValidExtrema ==
    (recon.frame >= 0 /\ args.color_source = "depth") =>
        \A k \in 1..Len(recon.vertices) :
            recon.colors[k] =
                depth_to_color(ReconDepth(k), MinOf(ValidDepths(recon.frame)),
                               MaxOf(ValidDepths(recon.frame)))

C22_Witness ==
    /\ recon.frame = 0
    /\ args.color_source = "depth"
    /\ npz.depths[1] = << <<I(0), I(2)>>, <<I(1), I(-1)>> >>
    /\ recon.colors = << <<127, 0, 0>>, <<0, 0, 127>> >>

\* Frame f (1-based) of the video as C23 expects it after conversion, in
\* the layout it is stored in.
ExpectedFrame(f) ==
    [i \in 1..Len(npz.video[f]) |-> [j \in 1..Len(npz.video[f][i]) |->
        [k \in 1..Len(npz.video[f][i][j]) |->
            I(ExpectedByte(npz.video[f][i][j][k]))]]]

\* C23: every frame the exporter prepares holds, value for value, floor(v *
\* 255) for a video stored as floats in [0,1] and the stored value for a
\* video stored in byte range, whatever the content of the frame (the
\* frame as stored, or moved to channel-last order).
C23_Conversion ==
    \A f \in 1..Len(video_colors) :
        \/ video_colors[f] = ExpectedFrame(f)
        \/ video_colors[f] = Transpose120(ExpectedFrame(f))

\* The case of C23 as the code handles it: a byte-range frame of a dark
\* scene, all values 0 or 1, has its 1s turned into 255, and the points
\* are written with them.
C23_DarkFrameScaled ==
    /\ Has("video") /\ npz.video_range = "dark"
    /\ Has("depths") /\ npz.video_layout = "last"
    /\ args.color_source = "video" /\ video_colors /= <<>>
    /\ recon.frame = 0
    /\ npz.video[1] = << << <<I(0), I(1), I(0)>> >> >>
    /\ video_colors[1] = << << <<I(0), I(255), I(0)>> >> >>
    /\ recon.colors = << <<0, 255, 0>> >>

\* The intrinsics C24 calls degenerate: none, an array without the entries
\* the unprojection reads, or a zero focal length.
HasDegenerateIntrinsics ==
    \/ ~Has("intrinsics")
    \/ ~IndexableIntrinsics(npz.intrinsics.a)
    \/ npz.intrinsics.a[1][1] = I(0)
    \/ npz.intrinsics.a[2][2] = I(0)
IsFinite(q) == q[2] /= 0

\* C24: a dense-mode export with degenerate intrinsics aborts before any
\* frame file is written: it never gets past its input checks, writes
\* nothing and unprojects nothing.
C24_DegenerateRejected ==
    (Has("depths") /\ HasDegenerateIntrinsics) =>
        /\ pc \in {"load", "failed"}
        /\ calls = <<>>
        /\ DOMAIN files = {}
        /\ recon.frame = -1

\* The cases of C24 as the code handles them: with fx = 0 the export runs
\* to its end and writes a point at infinity; with a 2x2 array it stops at
\* the first dense frame, the trajectory files already written.
C24_ZeroFocalWritten ==
    /\ Has("intrinsics") /\ npz.intrinsics.a = ZeroFx
    /\ pc = "done"
    /\ \E k \in DenseCalls : \E j \in 1..Len(calls[k].vertices) :
          /\ ~IsFinite(calls[k].vertices[j][1])
          /\ SubSeq(files[calls[k].path].body, 15 * j - 14, 15 * j - 11)
                = <<0, 0, 128, 255>>

C24_MalformedStopsLate ==
    /\ Has("intrinsics") /\ npz.intrinsics.a = Malformed
    /\ pc = "failed" /\ error = "IndexError"
    /\ TrajectoryCalls /= {}

\* C25: whatever happens to a write, every file under a frame name
\* frame_NNNNNN.ply is whole: its body holds the records its header counts.
C25_NoTruncatedFile ==
    \A path \in DOMAIN files :
        Len(files[path].body) = 15 * DeclaredCount(files[path])

\* The case of C25 as the code handles it: the write of frame 1 failed
\* after one record and 7 bytes, the run is over, and frame_000001.ply is
\* there with a header that counts 2 vertices and a body of 22 bytes.
C25_TruncatedFileLeft ==
    /\ pc = "failed" /\ error = "OSError"
    /\ FramePath("trajectory", 1) \in DOMAIN files
    /\ DeclaredCount(files[FramePath("trajectory", 1)]) = 2
    /\ Len(files[FramePath("trajectory", 1)].body) = 22
    /\ metadata = <<>>

\* Helpers of C26: the file a call of parse_ply_file was made on, and the
\* position its k-th record holds.
ForeignFile == files[FramePath(foreign.dir, foreign.frame)]
PositionAt(body, size, k) ==
    <<F32Value(SubSeq(body, size * (k - 1) + 1, size * (k - 1) + 4)),
      F32Value(SubSeq(body, size * (k - 1) + 5, size * (k - 1) + 8)),
      F32Value(SubSeq(body, size * (k - 1) + 9, size * (k - 1) + 12))>>

\* C26: on a file whose header declares no colour, parse_ply_file returns
\* one point per declared vertex, read from records of 12 bytes, each with
\* the colour (1,1,1,1); on a whole file with colour declared it returns one
\* point per declared vertex read from records of 15 bytes, the colour
\* being the last three bytes over 255 with alpha 1.
C26_RecordLayout ==
    /\ (foreign.called /\ foreign.kind = "no colour") =>
          LET body == PositionBytes(ForeignFile.body)
              n    == DeclaredCount(ForeignFile)
          IN  /\ foreign.status = "ok"
              /\ Len(body) = 12 * n
              /\ Len(foreign.vertices) = n /\ Len(foreign.colors) = n
              /\ \A k \in 1..n :
                    /\ foreign.vertices[k] = PositionAt(body, 12, k)
                    /\ foreign.colors[k] = <<I(1), I(1), I(1), I(1)>>
    /\ ParsedWhole =>
          LET body == files[ParsedPath].body
              n    == DeclaredCount(files[ParsedPath])
          IN  /\ parsed.status = "ok"
              /\ Len(body) = 15 * n
              /\ Len(parsed.vertices) = n /\ Len(parsed.colors) = n
              /\ \A k \in 1..n :
                    /\ parsed.vertices[k] = PositionAt(body, 15, k)
                    /\ parsed.colors[k] = <<R(body[15 * k - 2], 255),
                                            R(body[15 * k - 1], 255),
                                            R(body[15 * k], 255), I(1)>>

\* A file of two records without colour was read: two white points.
C26_Witness ==
    /\ foreign.called /\ foreign.kind = "no colour"
    /\ DeclaredCount(ForeignFile) = 2
    /\ Len(foreign.vertices) = 2
    /\ foreign.vertices[1] /= foreign.vertices[2]
    /\ foreign.colors = << <<I(1), I(1), I(1), I(1)>>, <<I(1), I(1), I(1), I(1)>> >>

\* C27: every call of parse_ply_file comes back, with a result or with an
\* error.
C27_ParseTerminates ==
    /\ parsed.called => parsed.status \in {"ok", "error"}
    /\ foreign.called => foreign.status \in {"ok", "error"}

\* The case of C27 as the code handles it: on a file of no bytes the header
\* loop never ends.
C27_EmptyFileHangs ==
    foreign.called /\ foreign.kind = "empty" /\ foreign.status = "hang"

\* The same on the header of an exported frame without points, less its
\* end_header line.
C27_NoEndHeaderHangs ==
    /\ foreign.called /\ foreign.kind = "no end_header"
    /\ Len(ForeignHeader(ForeignFile.header, "no end_header")) = 9
    /\ ForeignFile.body = <<>>
    /\ foreign.status = "hang"

\* Helpers of C28..C30.  The value of an object's hide property at integer
\* scene frame f: that of the last keyframe at or before f, and before the
\* first keyframe that of the first.
HiddenAt(obj, f) ==
    LET kf     == obj.keyframes
        before == {k \in 1..Len(kf) : kf[k].time2 <= 2 * f}
    IN  IF before = {}
        THEN kf[CHOOSE k \in 1..Len(kf) :
                    \A j \in 1..Len(kf) : kf[k].time2 <= kf[j].time2].hide
        ELSE kf[CHOOSE k \in before :
                    \A j \in before : kf[j].time2 <= kf[k].time2].hide
VisibleAt(obj, f) == ~HiddenAt(obj, f)
SceneFrames == 0..(scene.frame_end + 2)
Imported == scene.called /\ scene.status = "ok"
FolderFiles == {p \in DOMAIN files : p.dir = scene.folder}
\* The dataset frame a file was exported from: the number in its name.
DatasetFrame(path) == ParseInt(path.index)
ShownAt(path, f) ==
    \E k \in 1..Len(scene.objects) :
        scene.objects[k].file = path /\ VisibleAt(scene.objects[k], f)

\* C28: after a finished export and an import of one of its folders, every
\* dataset frame t whose exported points are not empty is shown at scene
\* frame frame_start + t: an object made from the points of frame t is
\* visible there.  The frames with points are the calls of
\* write_ply_with_colors with at least one vertex.
C28_FrameAligned ==
    (Imported /\ pc = "done") =>
        \A k \in 1..Len(calls) :
            (calls[k].path.dir = scene.folder /\ Len(calls[k].vertices) > 0
               /\ calls[k].path \in FolderFiles) =>
                ShownAt(calls[k].path, scene.frame_start + DatasetFrame(calls[k].path))

\* The case of C28 as the code handles it: dense frame 0 has no valid
\* depth and gets no file, frame 1 has points and its file is the first of
\* the folder, so its object is shown at frame_start and not at
\* frame_start + 1.
C28_DenseShifted ==
    /\ Imported /\ pc = "done" /\ scene.folder = "pointcloud"
    /\ FramePath("pointcloud", 0) \notin DOMAIN files
    /\ FramePath("pointcloud", 1) \in DOMAIN files
    /\ ShownAt(FramePath("pointcloud", 1), scene.frame_start)
    /\ ~ShownAt(FramePath("pointcloud", 1), scene.frame_start + 1)

\* The trajectory half of C28: every frame has a file, empty ones included,
\* and the frames with points are shown at frame_start + t.
C28_TrajectoryAligned ==
    (Imported /\ pc = "done" /\ scene.folder = "trajectory") =>
        \A p \in FolderFiles :
            DeclaredCount(files[p]) > 0 =>
                /\ ShownAt(p, scene.frame_start + DatasetFrame(p))
                /\ \A f \in SceneFrames :
                      ShownAt(p, f) => f = scene.frame_start + DatasetFrame(p)

\* A trajectory with no visible point in frame 0 and one in frame 1 was
\* imported: the object of frame 1 is shown at frame_start + 1.
C28_TrajectoryWitness ==
    /\ Imported /\ pc = "done" /\ scene.folder = "trajectory"
    /\ DeclaredCount(files[FramePath("trajectory", 0)]) = 0
    /\ ShownAt(FramePath("trajectory", 1), scene.frame_start + 1)

\* C29: the scene frame rate after an import is the fps of the exported
\* metadata record, and 30 when the export wrote no metadata.
C29_FpsRoundTrip ==
    Imported =>
        scene.fps = (IF metadata /= <<>> THEN metadata[Len(metadata)].fps ELSE 30)

\* The case of C29 as the code handles it: exported with fps 24, metadata
\* written with fps 24, and the scene set to 30 after the import of either
\* folder.
C29_ExportedRateIgnored ==
    /\ Imported /\ pc = "done"
    /\ args.fps = 24 /\ metadata /= <<>> /\ metadata[1].fps = 24
    /\ scene.fps = 30

\* C30: after an import, no integer scene frame shows two imported objects;
\* the object made from the file at position i (from 0) of the folder's
\* sorted files is visible at f exactly when f = frame_start + i; and the
\* scene frame range runs from frame_start to frame_start + (number of
\* files) - 1.
C30_OneFramePerObject ==
    Imported =>
        /\ \A f \in SceneFrames :
              Cardinality({k \in 1..Len(scene.objects) :
                              VisibleAt(scene.objects[k], f)}) <= 1
        /\ \A k \in 1..Len(scene.objects) :
              LET i == Cardinality({p \in FolderFiles :
                          DatasetFrame(p) < DatasetFrame(scene.objects[k].file)})
              IN  /\ ParseInt(scene.objects[k].name.index) = i
                  /\ \A f \in SceneFrames :
                        VisibleAt(scene.objects[k], f) <=> f = scene.frame_start + i
        /\ scene.frame_start \in FrameStarts
        /\ scene.frame_end = scene.frame_start + Cardinality(FolderFiles) - 1

\* Two files with points were imported from frame 3 on: two objects, the
\* first visible at 3 only, the second at 4 only, frame range 3..4.
C30_Witness ==
    /\ Imported /\ scene.frame_start = 3 /\ scene.frame_end = 4
    /\ Len(scene.objects) = 2
    /\ VisibleAt(scene.objects[1], 3) /\ ~VisibleAt(scene.objects[1], 4)
    /\ ~VisibleAt(scene.objects[2], 3) /\ VisibleAt(scene.objects[2], 4)

====
